---- MODULE Spec2Model ----
(***************************************************************************)
(* Model of the route/distance calculation core of railway_be:             *)
(*   - DistanceCalculationService (src/src/distance_calculation/service.py)*)
(*     the shortest-path request handler over the `routes` table;          *)
(*   - GraphGeneratorService (src/src/graph_generator/service.py)          *)
(*     the adjacency-list exporter over route/intersection segments.       *)
(*                                                                         *)
(* Distances are DECIMAL(8,2) kilometres; the model counts them in         *)
(* hundredths of a kilometre, so 100 is 1.00 km and round(x, 2) is the     *)
(* identity.  A nullable column holds <<>> (NULL / None) or <<v>>.         *)
(***************************************************************************)
EXTENDS Integers, Sequences, FiniteSets, TLC

VARIABLES
    stations,       \* rows of table `stations` for the path engine: set of ids
    routes,         \* rows of table `routes`
    request,        \* the last DistanceCalculationRequest, <<>> before any
    shortest_path,  \* the handler's local `shortest_path` of that request
    result,         \* what the handler produced: a response or an exception
    reverse_result, \* what the handler produced for the reversed request
    name,           \* argument handed to is_real_station_name
    is_real,        \* its return value, <<>> before the call
    station_names,  \* table `stations` for the exporter: id -> name
    line_status,    \* table `train_lines`: id -> status
    route_segments, \* table `route_segments`: train route -> rows by segment_order
    transfers,      \* table `intersection_segments`
    export,         \* what the last exporter call returned
    second_export,  \* what a second call of the full-graph export returned
    tasks,          \* the requests being served step by step: id -> locals
    history,        \* id -> the states of the stored data since the request began
    writes,         \* number of writes committed by other clients so far
    edges,          \* the edge row of each of the three edge tables, <<>> if none
    segment_checks, \* whether table `route_segments` carries its CHECK constraints
    search,         \* the locals of _find_shortest_path while its loop runs
    train_route,    \* the rows of `route_segments` of one train route, and the next id
    last_op,        \* the last segment operation that ended, with the rows before it
    ops             \* the segment operations being served step by step: id -> locals

pathVars == <<stations, routes, request, shortest_path, result, reverse_result>>
nameVars == <<name, is_real>>
exportVars == <<station_names, line_status, route_segments, transfers, export, second_export>>
taskVars == <<tasks, history, writes>>
edgeVars == <<edges, segment_checks>>
segmentVars == <<train_route, last_op, ops>>
mgmtVars == <<edges, segment_checks, search, train_route, last_op, ops>>
vars == <<stations, routes, request, shortest_path, result, reverse_result, name, is_real,
         station_names, line_status, route_segments, transfers, export, second_export,
         tasks, history, writes, edges, segment_checks, search,
         train_route, last_op, ops>>

----------------------------------------------------------------------------
(* Bounds of the model.                                                    *)

\* Station ids a request may name; ids outside `stations` are unknown.
StationIds == {1, 2, 3}

\* Number of rows the `routes` table holds at most.
MaxRoutes == 3

\* The single train line the `routes` rows of the model belong to.
Lines == {1}

\* (distance_km, duration_minutes, status) values a stored route row takes:
\* 1.00 km / 2 min, 3.00 km / 1 min, both columns NULL, 0.00 km / 1 min,
\* and an inactive row.
RouteValues ==
    { [distance_km |-> <<100>>, duration_minutes |-> <<2>>, status |-> "active"],
      [distance_km |-> <<300>>, duration_minutes |-> <<1>>, status |-> "active"],
      [distance_km |-> <<>>,    duration_minutes |-> <<>>,  status |-> "active"],
      [distance_km |-> <<0>>,   duration_minutes |-> <<1>>, status |-> "active"],
      [distance_km |-> <<100>>, duration_minutes |-> <<2>>, status |-> "inactive"] }

----------------------------------------------------------------------------
(* Generic helpers.                                                        *)

Range(s) == {s[i] : i \in DOMAIN s}

\* All orders in which a query without ORDER BY may return the rows of S.
Orderings(S) ==
    {f \in [1..Cardinality(S) -> S] : \A i, j \in 1..Cardinality(S) : f[i] = f[j] => i = j}

RemoveAt(s, i) == SubSeq(s, 1, i - 1) \o SubSeq(s, i + 1, Len(s))

RECURSIVE SumSeq(_)
SumSeq(s) == IF s = <<>> THEN 0 ELSE Head(s) + SumSeq(Tail(s))

\* Python list comparison a < b on lists of integers.
RECURSIVE ListLess(_, _)
ListLess(a, b) ==
    IF a = <<>> THEN b # <<>>
    ELSE IF b = <<>> THEN FALSE
    ELSE IF Head(a) # Head(b) THEN Head(a) < Head(b)
    ELSE ListLess(Tail(a), Tail(b))

----------------------------------------------------------------------------
(* The `routes` table (src/src/models.py, class Route).                    *)

\* A row: line_id, from/to station (foreign keys into stations), nullable
\* distance_km and duration_minutes, status.
RouteRow(l, f, t, v) ==
    [line_id |-> l, from_station_id |-> f, to_station_id |-> t,
     distance_km |-> v.distance_km, duration_minutes |-> v.duration_minutes,
     status |-> v.status]

RouteKey(r) == <<r.line_id, r.from_station_id, r.to_station_id>>

\* UniqueConstraint('line_id', 'from_station_id', 'to_station_id') and the
\* two foreign keys into `stations`.
RoutesTableOk(sts, rs) ==
    /\ \A r \in rs : r.from_station_id \in sts /\ r.to_station_id \in sts
    /\ \A r1, r2 \in rs : RouteKey(r1) = RouteKey(r2) => r1 = r2

----------------------------------------------------------------------------
(* DistanceCalculationService (src/src/distance_calculation/service.py).   *)

StationName(id) == <<"station", id>>
LineName(id) == <<"line", id>>
Unknown == <<"Unknown">>

\* 1.0 km and 10 minutes: the values used when a column is falsy.
PlaceholderDistance == 100
PlaceholderDuration == 10

\* `stations`, the dict built from SELECT ... WHERE id IN (from, to): its keys.
StationsLookup(sts, from_station_id, to_station_id) ==
    sts \cap {from_station_id, to_station_id}

\* The rows of SELECT ... WHERE status = 'active'.
ActiveRoutes_NoFilter(rs) == rs
ActiveRoutes(rs) == {r \in rs : r.status = "active"}

\* float(route.distance_km) if route.distance_km else 1.0
EdgeDistance(route) ==
    IF route.distance_km # <<>> /\ route.distance_km[1] # 0
    THEN route.distance_km[1] ELSE PlaceholderDistance

\* route.duration_minutes if route.duration_minutes else 10
EdgeDuration(route) ==
    IF route.duration_minutes # <<>> /\ route.duration_minutes[1] # 0
    THEN route.duration_minutes[1] ELSE PlaceholderDuration

\* One turn of the loop `for route in routes` on `graph`: both endpoints
\* become keys and each gets the other appended with the edge's weights.
AddRouteToGraph(graph, route) ==
    LET f == route.from_station_id
        t == route.to_station_id
        g1 == IF f \in DOMAIN graph THEN graph ELSE graph @@ (f :> <<>>)
        g2 == IF t \in DOMAIN g1 THEN g1 ELSE g1 @@ (t :> <<>>)
        g3 == [g2 EXCEPT ![f] = Append(@, <<t, EdgeDistance(route), EdgeDuration(route)>>)]
    IN  [g3 EXCEPT ![t] = Append(@, <<f, EdgeDistance(route), EdgeDuration(route)>>)]

\* The same turn on `route_info`: both directed pairs point to this row.
AddRouteToInfo(route_info, route) ==
    LET f == route.from_station_id
        t == route.to_station_id
    IN  (<<t, f>> :> route) @@ ((<<f, t>> :> route) @@ route_info)

RECURSIVE BuildGraph(_)
BuildGraph(rows) ==
    IF rows = <<>> THEN <<>>
    ELSE AddRouteToGraph(BuildGraph(SubSeq(rows, 1, Len(rows) - 1)), rows[Len(rows)])

RECURSIVE BuildRouteInfo(_)
BuildRouteInfo(rows) ==
    IF rows = <<>> THEN <<>>
    ELSE AddRouteToInfo(BuildRouteInfo(SubSeq(rows, 1, Len(rows) - 1)), rows[Len(rows)])

EntryLess_DistanceOnly(a, b) ==
    IF a.distance # b.distance THEN a.distance < b.distance
    ELSE IF a.node # b.node THEN a.node < b.node
    ELSE ListLess(a.path, b.path)
\* Python's tuple order on queue entries (distance, duration, node, path).
EntryLess(a, b) ==
    IF a.distance # b.distance THEN a.distance < b.distance
    ELSE IF a.duration # b.duration THEN a.duration < b.duration
    ELSE IF a.node # b.node THEN a.node < b.node
    ELSE ListLess(a.path, b.path)

\* heapq.heappop: the position of a least entry of the queue.
MinIndex(pq) == CHOOSE i \in DOMAIN pq : \A j \in DOMAIN pq : ~EntryLess(pq[j], pq[i])

\* The entries pushed while expanding `cur`, in the order of graph[cur].
RECURSIVE Pushes(_, _, _)
Pushes(arcs, cur, visited) ==
    IF arcs = <<>> THEN <<>>
    ELSE LET arc == Head(arcs)
             rest == Pushes(Tail(arcs), cur, visited)
         IN  IF arc[1] \notin visited
             THEN <<[distance |-> cur.distance + arc[2],
                     duration |-> cur.duration + arc[3],
                     node |-> arc[1],
                     path |-> Append(cur.path, arc[1])]>> \o rest
             ELSE rest

\* The loop `while pq` of _find_shortest_path; <<>> stands for None.
RECURSIVE SearchLoop(_, _, _, _)
SearchLoop(graph, end, pq, visited) ==
    IF pq = <<>> THEN <<>>
    ELSE LET i == MinIndex(pq)
             cur == pq[i]
             rest == RemoveAt(pq, i)
         IN  IF cur.node \in visited THEN SearchLoop(graph, end, rest, visited)
             ELSE IF cur.node = end THEN cur.path
             ELSE IF cur.node \in DOMAIN graph
                  THEN SearchLoop(graph, end,
                                  rest \o Pushes(graph[cur.node], cur, visited \cup {cur.node}),
                                  visited \cup {cur.node})
                  ELSE SearchLoop(graph, end, rest, visited \cup {cur.node})

\* _find_shortest_path(graph, start, end)
FindShortestPath(graph, start, end) ==
    IF start \notin DOMAIN graph \/ end \notin DOMAIN graph THEN <<>>
    ELSE SearchLoop(graph, end,
                    <<[distance |-> 0, duration |-> 0, node |-> start, path |-> <<start>>]>>,
                    {})

Response(f, t, fname, tname, dist, dur, segs, ok, msg) ==
    [kind |-> "response",
     from_station_id |-> f, to_station_id |-> t,
     from_station_name |-> fname, to_station_name |-> tname,
     total_distance_km |-> dist, total_duration_minutes |-> dur,
     route_segments |-> segs, success |-> ok, message |-> msg]

\* An exception leaving the handler: stations[key] on a key the dict lacks.
KeyError(key) == [kind |-> "KeyError", key |-> key]

FromNotFoundResponse_NamesTo(found, f, t) ==
    Response(f, t, Unknown, IF t \in found THEN StationName(t) ELSE Unknown,
             0, 0, <<>>, FALSE, <<"From station with ID", t, "not found">>)
FromNotFoundResponse(found, f, t) ==
    Response(f, t, Unknown, IF t \in found THEN StationName(t) ELSE Unknown,
             0, 0, <<>>, FALSE, <<"From station with ID", f, "not found">>)

ToNotFoundResponse(f, t) ==
    Response(f, t, StationName(f), Unknown,
             0, 0, <<>>, FALSE, <<"To station with ID", t, "not found">>)

SameStationResponse(f, t) ==
    Response(f, t, StationName(f), StationName(t),
             0, 0, <<>>, TRUE, <<"Same station selected">>)

NoRoutesResponse(f, t) ==
    Response(f, t, StationName(f), StationName(t),
             0, 0, <<>>, FALSE, <<"No active routes found in the system">>)

NoPathResponse_CopiedMessage(f, t) == NoRoutesResponse(f, t)
NoPathResponse(f, t) ==
    Response(f, t, StationName(f), StationName(t),
             0, 0, <<>>, FALSE, <<"No route found between the selected stations">>)

\* The segment built for the hop path[i] -> path[i+1].
SegmentInfo(route, cur, nxt) ==
    [from_station_id |-> cur, to_station_id |-> nxt,
     from_station_name |-> StationName(cur), to_station_name |-> StationName(nxt),
     line_name |-> LineName(route.line_id),
     distance_km |-> EdgeDistance(route), duration_minutes |-> EdgeDuration(route)]

\* The loop `for i in range(len(shortest_path) - 1)` from hop i on, with the
\* segments appended so far: the final list, or the KeyError raised by
\* stations[current_station_id] / stations[next_station_id].
RECURSIVE AssembleFrom(_, _, _, _, _)
AssembleFrom(i, path, route_info, found, segs) ==
    IF i > Len(path) - 1 THEN [raised |-> FALSE, segs |-> segs]
    ELSE LET cur == path[i]
             nxt == path[i + 1]
         IN  IF <<cur, nxt>> \notin DOMAIN route_info
             THEN AssembleFrom(i + 1, path, route_info, found, segs)
             ELSE IF cur \notin found THEN [raised |-> TRUE, key |-> cur]
             ELSE IF nxt \notin found THEN [raised |-> TRUE, key |-> nxt]
             ELSE AssembleFrom(i + 1, path, route_info, found,
                               Append(segs, SegmentInfo(route_info[<<cur, nxt>>], cur, nxt)))

FoundResponse(f, t, segs) ==
    Response(f, t, StationName(f), StationName(t),
             SumSeq([i \in DOMAIN segs |-> segs[i].distance_km]),
             SumSeq([i \in DOMAIN segs |-> segs[i].duration_minutes]),
             segs, TRUE, <<"Route found with", Len(segs), "segments">>)

\* if from_station_id == to_station_id
IsSameStation_Never(f, t) == FALSE
IsSameStation(f, t) == f = t

\* shortest_path as the handler computes it from the rows `rows` of the
\* routes query (in the order returned); <<>> when the handler returns
\* before the search or the search finds nothing.
ShortestPathOf(sts, rows, f, t) ==
    LET found == StationsLookup(sts, f, t)
    IN  IF f \notin found \/ t \notin found \/ IsSameStation(f, t) \/ rows = <<>>
        THEN <<>>
        ELSE FindShortestPath(BuildGraph(rows), f, t)

\* calculate_distance_and_time(request) on the station rows `sts` and the
\* rows `rows` returned by the routes query.
CalculateDistanceAndTime(sts, rows, f, t) ==
    LET found == StationsLookup(sts, f, t)
    IN  IF f \notin found THEN FromNotFoundResponse(found, f, t)
        ELSE IF t \notin found THEN ToNotFoundResponse(f, t)
        ELSE IF IsSameStation(f, t) THEN SameStationResponse(f, t)
        ELSE IF rows = <<>> THEN NoRoutesResponse(f, t)
        ELSE LET path == FindShortestPath(BuildGraph(rows), f, t)
             IN  IF path = <<>> THEN NoPathResponse(f, t)
                 ELSE LET a == AssembleFrom(1, path, BuildRouteInfo(rows), found, <<>>)
                      IN  IF a.raised THEN KeyError(a.key)
                          ELSE FoundResponse(f, t, a.segs)

----------------------------------------------------------------------------
(* Specification of the path engine: any stored data the table constraints *)
(* allow, then requests served one after the other on that data.           *)

NoRequest == <<>>
NoResult == [kind |-> "none"]

\* The keys (line_id, from_station_id, to_station_id) a table may hold.
RouteKeys(sts) == Lines \X sts \X sts

\* Every content of the `routes` table within the bounds: at most MaxRoutes
\* rows, one row per key, endpoints among the stored stations.
RouteTables(sts) ==
    UNION { { {RouteRow(k[1], k[2], k[3], v[k]) : k \in K} : v \in [K -> RouteValues] } :
            K \in {K0 \in SUBSET RouteKeys(sts) : Cardinality(K0) <= MaxRoutes} }

PathInit ==
    /\ stations \in SUBSET StationIds
    /\ routes \in RouteTables(stations)
    /\ request = NoRequest
    /\ shortest_path = <<>>
    /\ result = NoResult
    /\ reverse_result = NoResult

NameIdle == name = <<>> /\ is_real = <<>>

\* Requests that are served step by step.
TaskIds == {1, 2}

NoTask == [kind |-> "none"]

\* The edge tables of the management operations before they are used.
NoEdges == [t \in {"routes", "route_segments", "intersection_segments"} |-> <<>>]

\* No call of _find_shortest_path yet.
NoSearch == [status |-> "idle"]

\* Clients whose segment operations are served step by step.
ClientIds == {1, 2}

\* A train route without segments; the first segment gets id 1.
EmptyRoute == [rows |-> {}, next_id |-> 1]

NoOp == [op |-> "none"]

SegmentsIdle ==
    /\ train_route = EmptyRoute
    /\ last_op = NoOp
    /\ ops = [c \in ClientIds |-> NoOp]

MgmtIdle ==
    /\ edges = NoEdges
    /\ segment_checks = FALSE
    /\ search = NoSearch
    /\ SegmentsIdle

TasksIdle ==
    /\ tasks = [k \in TaskIds |-> NoTask]
    /\ history = [k \in TaskIds |-> {}]
    /\ writes = 0

NoExport == [op |-> "none"]

ExportIdle ==
    /\ station_names = <<>>
    /\ line_status = <<>>
    /\ route_segments = <<>>
    /\ transfers = {}
    /\ export = NoExport
    /\ second_export = NoExport

Init == PathInit /\ NameIdle /\ ExportIdle /\ TasksIdle /\ MgmtIdle

\* POST /calculate: the service call of the router, on the stored data.
Calculate(f, t) ==
    /\ request = NoRequest
    /\ \E rows \in Orderings(ActiveRoutes(routes)) :
          /\ request' = <<f, t>>
          /\ shortest_path' = ShortestPathOf(stations, rows, f, t)
          /\ result' = CalculateDistanceAndTime(stations, rows, f, t)
    /\ UNCHANGED <<stations, routes, reverse_result, nameVars, exportVars, taskVars, mgmtVars>>

\* A second POST /calculate on the same data, for the same two stations in
\* the other direction.
CalculateReverse ==
    /\ request # NoRequest
    /\ reverse_result = NoResult
    /\ \E rows \in Orderings(ActiveRoutes(routes)) :
          reverse_result' = CalculateDistanceAndTime(stations, rows, request[2], request[1])
    /\ UNCHANGED <<stations, routes, request, shortest_path, result, nameVars, exportVars, taskVars, mgmtVars>>

PathNext == \E f, t \in StationIds : Calculate(f, t)

Spec == Init /\ [][PathNext]_vars

PairNext ==
    \/ \E f, t \in StationIds : Calculate(f, t)
    \/ CalculateReverse

SpecPair == Init /\ [][PairNext]_vars

----------------------------------------------------------------------------
(* Vocabulary of the properties of the path engine.                        *)

Requested == request # NoRequest
ReqFrom == request[1]
ReqTo == request[2]

\* The stored rows whose status is 'active', read off the table itself.
StoredActive == {r \in routes : r.status = "active"}

\* One step along a stored active edge, in either direction.
Adjacent(a, b) ==
    \E r \in StoredActive :
        \/ r.from_station_id = a /\ r.to_station_id = b
        \/ r.from_station_id = b /\ r.to_station_id = a

RECURSIVE ReachableFrom(_)
ReachableFrom(S) ==
    LET T == S \cup {b \in StationIds : \E a \in S : Adjacent(a, b)}
    IN  IF T = S THEN S ELSE ReachableFrom(T)

Connected(a, b) == b \in ReachableFrom({a})

\* Stations that are an endpoint of some active edge.
OnSomeEdge(a) == \E r \in StoredActive : r.from_station_id = a \/ r.to_station_id = a

IsFailure(r) ==
    /\ r.kind = "response"
    /\ ~r.success
    /\ r.route_segments = <<>>
    /\ r.total_distance_km = 0
    /\ r.total_duration_minutes = 0

\* The hops are exactly the consecutive pairs of the station sequence.
HopsFollow(path, segs) ==
    /\ Len(segs) = Len(path) - 1
    /\ \A i \in DOMAIN segs :
          segs[i].from_station_id = path[i] /\ segs[i].to_station_id = path[i + 1]

TotalsAreSums(r) ==
    /\ r.total_distance_km =
          SumSeq([i \in DOMAIN r.route_segments |-> r.route_segments[i].distance_km])
    /\ r.total_duration_minutes =
          SumSeq([i \in DOMAIN r.route_segments |-> r.route_segments[i].duration_minutes])

\* Station sequences without repetition from a to b along active edges.
SimplePaths(a, b) ==
    {p \in UNION {[1..n -> StationIds] : n \in 1..Cardinality(StationIds)} :
        /\ p[1] = a /\ p[Len(p)] = b
        /\ \A i, j \in DOMAIN p : p[i] = p[j] => i = j
        /\ \A i \in 1..(Len(p) - 1) : Adjacent(p[i], p[i + 1])}

SetMin(S) == CHOOSE x \in S : \A y \in S : x <= y

\* The stored distance of the shortest edge between two adjacent stations.
StoredHopDistance(a, b) ==
    SetMin({r.distance_km[1] : r \in {q \in StoredActive :
                \/ q.from_station_id = a /\ q.to_station_id = b
                \/ q.from_station_id = b /\ q.to_station_id = a}})

StoredPathDistance(p) ==
    SumSeq([i \in 1..(Len(p) - 1) |-> StoredHopDistance(p[i], p[i + 1])])

AllDistancesStored == \A r \in StoredActive : r.distance_km # <<>>

----------------------------------------------------------------------------
(* Properties of the path engine.                                          *)

\* C1: when the shortest path passes through at least one intermediate
\* station, the request returns success, its hops are the consecutive pairs
\* of the station sequence and the totals are the sums over the hops.
C1_MultiHopPathIsReturned ==
    (Requested /\ Len(shortest_path) >= 3) =>
        /\ result.kind = "response"
        /\ result.success
        /\ HopsFollow(shortest_path, result.route_segments)
        /\ TotalsAreSums(result)

\* C2: with non-negative stored distances on every active edge, the station
\* sequence the engine chooses has the minimum cumulative stored distance
\* among all paths between the two stations.
C2_ChosenPathIsShortest ==
    (Requested /\ shortest_path # <<>> /\ AllDistancesStored) =>
        StoredPathDistance(shortest_path) =
            SetMin({StoredPathDistance(p) : p \in SimplePaths(ReqFrom, ReqTo)})

\* C3: a request from an existing station to itself succeeds with no hops
\* and zero totals, whatever edges are stored.
C3_SameStationSucceeds ==
    (Requested /\ ReqFrom = ReqTo /\ ReqFrom \in stations) =>
        /\ result.kind = "response"
        /\ result.success
        /\ result.route_segments = <<>>
        /\ result.total_distance_km = 0
        /\ result.total_duration_minutes = 0

\* C3 witness: the station has no edge at all while other edges are active.
C3_Witness ==
    /\ Requested /\ ReqFrom = ReqTo /\ ReqFrom \in stations
    /\ StoredActive # {} /\ ~OnSomeEdge(ReqFrom)
    /\ result.kind = "response" /\ result.success

\* Only the forward edge a -> b is stored as an active edge between a and b.
OnlyForwardEdge(a, b) ==
    /\ a \in stations /\ b \in stations /\ a # b
    /\ \E r \in StoredActive : r.from_station_id = a /\ r.to_station_id = b
    /\ ~\E r \in StoredActive : r.from_station_id = b /\ r.to_station_id = a

\* C4: when only the forward active edge A -> B is stored, the requests
\* (A,B) and (B,A) both succeed and report the same total distance.
C4_ReverseRequestAgrees ==
    (Requested /\ reverse_result # NoResult /\ OnlyForwardEdge(ReqFrom, ReqTo)) =>
        /\ result.kind = "response" /\ result.success
        /\ reverse_result.kind = "response" /\ reverse_result.success
        /\ result.total_distance_km = reverse_result.total_distance_km

\* C5: two distinct existing stations that no sequence of active edges
\* connects, while some active edge exists, get the NoPathFound failure and
\* no path.
C5_DisconnectedIsNoPathFound ==
    (/\ Requested /\ ReqFrom # ReqTo
     /\ ReqFrom \in stations /\ ReqTo \in stations
     /\ StoredActive # {} /\ ~Connected(ReqFrom, ReqTo)) =>
        /\ IsFailure(result)
        /\ result.message = <<"No route found between the selected stations">>
        /\ shortest_path = <<>>

\* C5 witness: both stations are endpoints of active edges, in different
\* components.
C5_Witness ==
    /\ Requested /\ ReqFrom # ReqTo
    /\ OnSomeEdge(ReqFrom) /\ OnSomeEdge(ReqTo) /\ ~Connected(ReqFrom, ReqTo)
    /\ IsFailure(result)
    /\ result.message = <<"No route found between the selected stations">>

\* The station ids a StationNotFound message names.
IdsNamed(msg) ==
    IF Len(msg) = 3 /\ msg[3] = "not found" THEN {msg[2]} ELSE {}

\* C6 as claimed: an unknown source or destination gets a failure whose
\* message names every unresolved endpoint, both of them when both are
\* unknown.
C6_MessageNamesEveryUnknown ==
    (Requested /\ (ReqFrom \notin stations \/ ReqTo \notin stations)) =>
        /\ IsFailure(result)
        /\ IdsNamed(result.message) = {ReqFrom, ReqTo} \ stations

\* C6 amended: an unknown source or destination gets a failure without an
\* exception; the message names the source when the source is unknown (also
\* when both are), and the destination only when the source is known.
C6_MessageNamesFirstUnknown ==
    (Requested /\ (ReqFrom \notin stations \/ ReqTo \notin stations)) =>
        /\ IsFailure(result)
        /\ ReqFrom \notin stations =>
              result.message = <<"From station with ID", ReqFrom, "not found">>
        /\ ReqFrom \in stations =>
              result.message = <<"To station with ID", ReqTo, "not found">>

\* C6 witness: both ids unknown and different; only the source is named.
C6_Witness ==
    /\ Requested /\ ReqFrom # ReqTo
    /\ ReqFrom \notin stations /\ ReqTo \notin stations
    /\ IsFailure(result)
    /\ IdsNamed(result.message) = {ReqFrom}

\* C7: between two distinct existing stations, an empty set of active edges
\* (nothing stored, or only inactive rows) gives NoRoutesAvailable.
C7_NoActiveEdgesIsNoRoutes ==
    (/\ Requested /\ ReqFrom # ReqTo
     /\ ReqFrom \in stations /\ ReqTo \in stations
     /\ StoredActive = {}) =>
        /\ IsFailure(result)
        /\ result.message = <<"No active routes found in the system">>

\* C7 witness: an inactive edge joins the two stations and nothing is active.
C7_Witness ==
    /\ Requested /\ ReqFrom # ReqTo
    /\ \E r \in routes : r.from_station_id = ReqFrom /\ r.to_station_id = ReqTo
    /\ StoredActive = {}
    /\ IsFailure(result)
    /\ result.message = <<"No active routes found in the system">>

\* C8: every request ends with a response; a failure has no hops and zero
\* totals, a success between distinct stations has hops covering the whole
\* path.
C8_AlwaysAResponse ==
    Requested =>
        /\ result.kind = "response"
        /\ ~result.success => IsFailure(result)
        /\ (result.success /\ ReqFrom # ReqTo) =>
              HopsFollow(shortest_path, result.route_segments)

----------------------------------------------------------------------------
(* GraphGeneratorService.is_real_station_name                              *)
(* (src/src/graph_generator/service.py).                                   *)
(*                                                                         *)
(* A name is a sequence of characters; a character is written as a string  *)
(* token: "LF" is the newline U+000A and "U0663" the Arabic-Indic digit    *)
(* three, a decimal digit outside ASCII.                                   *)

\* [NESW]
IsCompassLetter(c) == c \in {"N", "E", "S", "W"}

\* [A-Z]
IsUpperLetter(c) ==
    c \in {"A", "B", "C", "D", "E", "F", "G", "H", "I", "J", "K", "L", "M",
           "N", "O", "P", "Q", "R", "S", "T", "U", "V", "W", "X", "Y", "Z"}

IsAsciiDigit(c) == c \in {"0", "1", "2", "3", "4", "5", "6", "7", "8", "9"}

\* \d on a str pattern: any Unicode decimal digit.
IsDigit(c) == IsAsciiDigit(c) \/ c = "U0663"

\* \d+$ from position i: one or more digits up to the end of the string,
\* or up to a newline that ends the string.
DigitsThenEnd(s, i) ==
    \E k \in i..Len(s) :
        /\ \A j \in i..k : IsDigit(s[j])
        /\ \/ k = Len(s)
           \/ k = Len(s) - 1 /\ s[Len(s)] = "LF"

\* re.match of ^[NESW]\d+$|^[A-Z]\d+$
CodePatternMatches(s) ==
    \/ Len(s) >= 2 /\ IsCompassLetter(s[1]) /\ DigitsThenEnd(s, 2)
    \/ Len(s) >= 2 /\ IsUpperLetter(s[1]) /\ DigitsThenEnd(s, 2)

\* The pattern ^[A-Z]{1,2}\d+$ in place of the one above.
IsRealStationName_TwoLetters(s) ==
    ~ \/ Len(s) >= 2 /\ IsUpperLetter(s[1]) /\ DigitsThenEnd(s, 2)
      \/ Len(s) >= 3 /\ IsUpperLetter(s[1]) /\ IsUpperLetter(s[2]) /\ DigitsThenEnd(s, 3)
IsRealStationName(s) == ~CodePatternMatches(s)

----------------------------------------------------------------------------
(* GraphGeneratorService: the adjacency-list exporter                      *)
(* (src/src/graph_generator/service.py, router.py).                        *)
(*                                                                         *)
(* An adjacency list is a Python dict of lists: `keys` is the insertion    *)
(* order of its keys and `nbrs` maps each key to its neighbor list.        *)

EmptyGraph == [keys |-> <<>>, nbrs |-> <<>>]

Contains(list, x) == \E i \in DOMAIN list : list[i] = x

\* if name not in graph: graph[name] = []
WithKey(graph, n) ==
    IF Contains(graph.keys, n) THEN graph
    ELSE [keys |-> Append(graph.keys, n), nbrs |-> graph.nbrs @@ (n :> <<>>)]

WithNeighbor_AlwaysAppends(graph, a, b) == [graph EXCEPT !.nbrs[a] = Append(@, b)]
\* if b not in graph[a]: graph[a].append(b)
WithNeighbor(graph, a, b) ==
    IF Contains(graph.nbrs[a], b) THEN graph
    ELSE [graph EXCEPT !.nbrs[a] = Append(@, b)]

\* The bidirectional connection added for one segment.
Connect(graph, from_name, to_name) ==
    WithNeighbor(WithNeighbor(WithKey(WithKey(graph, from_name), to_name),
                              from_name, to_name),
                 to_name, from_name)

\* is_real_station_name(from_name) and is_real_station_name(to_name)
BothReal(from_name, to_name) ==
    IsRealStationName(from_name) /\ IsRealStationName(to_name)

\* One turn of a loop `for segment in ...segments` with station names `nm`.
AddSegment(graph, nm, seg) ==
    IF BothReal(nm[seg.from_station_id], nm[seg.to_station_id])
    THEN Connect(graph, nm[seg.from_station_id], nm[seg.to_station_id])
    ELSE graph

RECURSIVE AddSegments(_, _, _)
AddSegments(graph, nm, rows) ==
    IF rows = <<>> THEN graph
    ELSE AddSegments(AddSegment(graph, nm, Head(rows)), nm, Tail(rows))

\* Code points of the characters of the model's station names.
CodePoint(c) ==
    CASE c = "LF" -> 10   [] c = "0" -> 48   [] c = "1" -> 49
      [] c = "A" -> 65    [] c = "B" -> 66   [] c = "L" -> 76
      [] c = "N" -> 78    [] c = "S" -> 83   [] c = "a" -> 97
      [] c = "i" -> 105   [] c = "k" -> 107  [] c = "m" -> 109
      [] c = "o" -> 111   [] c = "r" -> 114  [] c = "s" -> 115
      [] c = "U0663" -> 1635

\* Python's str order a < b.
RECURSIVE NameLess(_, _)
NameLess(a, b) ==
    IF a = <<>> THEN b # <<>>
    ELSE IF b = <<>> THEN FALSE
    ELSE IF Head(a) # Head(b) THEN CodePoint(Head(a)) < CodePoint(Head(b))
    ELSE NameLess(Tail(a), Tail(b))

\* list.sort() on a list of names.
RECURSIVE SortNames(_)
SortNames(list) ==
    IF list = <<>> THEN <<>>
    ELSE LET i == CHOOSE i \in DOMAIN list : \A j \in DOMAIN list : ~NameLess(list[j], list[i])
         IN  <<list[i]>> \o SortNames(RemoveAt(list, i))

SortGraph_Skipped(graph) == graph
\* for node in graph: graph[node].sort()
SortGraph(graph) == [graph EXCEPT !.nbrs = [n \in DOMAIN graph.nbrs |-> SortNames(graph.nbrs[n])]]

\* The rows of a train route with status 'active', by segment_order.
ActiveInOrder(rows) == SelectSeq(rows, LAMBDA r : r.status = "active")

\* All active route segments ordered by (train_route_id, segment_order).
RECURSIVE AllActiveSegments(_, _)
AllActiveSegments(segs, r) ==
    IF r \notin DOMAIN segs THEN <<>>
    ELSE ActiveInOrder(segs[r]) \o AllActiveSegments(segs, r + 1)

\* build_graph_from_route_segments(db)
BuildGraphFromRouteSegments(nm, segs) ==
    AddSegments(EmptyGraph, nm, AllActiveSegments(segs, 1))

\* The rows of the intersection-segment query (no ORDER BY): any order of
\* the active rows.
ActiveTransferOrders(trs) == Orderings({t \in trs : t.status = "active"})

\* add_intersection_segments_to_graph(db, graph) when the query returns `rows`
AddIntersectionSegmentsToGraph(graph, nm, rows) == AddSegments(graph, nm, rows)

\* sum(len(connections) for connections in graph.values()) // 2
TotalConnections(graph) ==
    SumSeq([i \in DOMAIN graph.keys |-> Len(graph.nbrs[graph.keys[i]])]) \div 2

\* generate_metadata(db, graph): the node and connection counts and the
\* names of the active lines (the count of intersection points and the
\* timestamp are left out).
GenerateMetadata(graph, ls) ==
    [total_nodes |-> Len(graph.keys),
     total_connections |-> TotalConnections(graph),
     lines_included |-> {l \in DOMAIN ls : ls[l] = "active"}]

\* generate_complete_graph(db) when the intersection query returns `rows`
GenerateCompleteGraph(nm, ls, segs, rows) ==
    LET graph == AddIntersectionSegmentsToGraph(BuildGraphFromRouteSegments(nm, segs), nm, rows)
    IN  [graph |-> SortGraph(graph), metadata |-> GenerateMetadata(graph, ls)]

\* TrainRoute.line_id is unique: train route r is the route of line r.
TrainRouteOfLine(segs, line_id) == IF line_id \in DOMAIN segs THEN segs[line_id] ELSE <<>>

\* get_graph_by_line_id(db, line_id)
GetGraphByLineId(nm, ls, segs, line_id) ==
    LET graph == SortGraph(AddSegments(EmptyGraph, nm, ActiveInOrder(TrainRouteOfLine(segs, line_id))))
    IN  [graph |-> graph,
         metadata |-> [total_nodes |-> Len(graph.keys),
                       total_connections |-> TotalConnections(graph),
                       line_name |-> IF line_id \in DOMAIN ls THEN <<line_id>> ELSE <<>>]]

\* The names of the lines: line 1 is "Sukhumvit", line 2 is "Silom", so
\* ORDER BY TrainLine.name lists line 2 first.
LinesByName == <<2, 1>>

\* The first loop of get_graph_by_routes: one entry per active line whose
\* graph is not empty, in the order of the line names.
RECURSIVE LineGraphs(_, _, _, _)
LineGraphs(nm, ls, segs, order) ==
    IF order = <<>> THEN <<>>
    ELSE LET l == Head(order)
             g == GetGraphByLineId(nm, ls, segs, l).graph
             rest == LineGraphs(nm, ls, segs, Tail(order))
         IN  IF l \in DOMAIN ls /\ ls[l] = "active" /\ g.keys # <<>>
             THEN <<[line |-> l, graph |-> g]>> \o rest
             ELSE rest

\* if a in line_graph: if b not in line_graph[a]: append b and sort
WithTransferNeighbor(graph, a, b) ==
    IF Contains(graph.keys, a) /\ ~Contains(graph.nbrs[a], b)
    THEN [graph EXCEPT !.nbrs[a] = SortNames(Append(@, b))]
    ELSE graph

\* One intersection segment applied to one line's graph.
AddTransferToLine(graph, nm, seg) ==
    LET from_name == nm[seg.from_station_id]
        to_name == nm[seg.to_station_id]
    IN  IF BothReal(from_name, to_name)
        THEN WithTransferNeighbor(WithTransferNeighbor(graph, from_name, to_name),
                                  to_name, from_name)
        ELSE graph

RECURSIVE AddTransfersToLine(_, _, _)
AddTransfersToLine(graph, nm, rows) ==
    IF rows = <<>> THEN graph
    ELSE AddTransfersToLine(AddTransferToLine(graph, nm, Head(rows)), nm, Tail(rows))

\* get_graph_by_routes(db, include_intersections) when the intersection
\* query returns `rows`
GetGraphByRoutes(nm, ls, segs, include_intersections, rows) ==
    LET routes_data == LineGraphs(nm, ls, segs, LinesByName)
    IN  IF include_intersections
        THEN [i \in DOMAIN routes_data |->
                 [line |-> routes_data[i].line,
                  graph |-> AddTransfersToLine(routes_data[i].graph, nm, rows)]]
        ELSE routes_data

----------------------------------------------------------------------------
(* Specification of the name filter alone: every name within the bounds is *)
(* handed to is_real_station_name.                                         *)

\* Longest name handed to the filter.
MaxNameLen == 3

\* Characters the names are made of: a compass letter, two other capitals,
\* a small letter, an ASCII digit, a non-ASCII digit, a newline.
NameChars == {"N", "B", "L", "a", "1", "U0663", "LF"}

Names == UNION {[1..n -> NameChars] : n \in 0..MaxNameLen}

PathIdle ==
    /\ stations = {}
    /\ routes = {}
    /\ request = NoRequest
    /\ shortest_path = <<>>
    /\ result = NoResult
    /\ reverse_result = NoResult

NameInit ==
    /\ name \in Names
    /\ is_real = <<>>
    /\ PathIdle
    /\ ExportIdle
    /\ TasksIdle
    /\ MgmtIdle

IsRealCall ==
    /\ is_real = <<>>
    /\ is_real' = <<IsRealStationName(name)>>
    /\ UNCHANGED <<name, pathVars, exportVars, taskVars, mgmtVars>>

NameNext == IsRealCall

SpecName == NameInit /\ [][NameNext]_vars

\* The name without the one newline that may end it ($ matches before it).
WithoutFinalNewline(s) ==
    IF s # <<>> /\ s[Len(s)] = "LF" THEN SubSeq(s, 1, Len(s) - 1) ELSE s

\* k capitals followed by one or more decimal digits, the whole name.
CodeShape(s, k) ==
    LET body == WithoutFinalNewline(s)
    IN  /\ Len(body) > k
        /\ \A j \in 1..k : IsUpperLetter(body[j])
        /\ \A j \in (k + 1)..Len(body) : IsAsciiDigit(body[j]) \/ body[j] = "U0663"

TwoLetterCodeShape(s) == CodeShape(s, 1) \/ CodeShape(s, 2)

OneLetterCodeShape(s) == CodeShape(s, 1)

\* C10 as claimed: a name is filtered out if and only if it is one or two
\* capitals followed by one or more digits.
C10_FilteredIffTwoLetterCode ==
    is_real # <<>> => (is_real[1] = FALSE <=> TwoLetterCodeShape(name))

\* C10 amended: a name is filtered out if and only if it is exactly one
\* capital followed by one or more decimal digits, with at most one newline
\* after them; a two-letter code is kept.
C10_FilteredIffOneLetterCode ==
    is_real # <<>> => (is_real[1] = FALSE <=> OneLetterCodeShape(name))

\* C10 witness: a two-letter code was classified as a real name.
C10_Witness ==
    /\ name = <<"B", "L", "1">>
    /\ is_real = <<TRUE>>

----------------------------------------------------------------------------
(* Specification of the exporter: any stored data within the bounds, then  *)
(* one call of an endpoint of the graph router on that data.               *)

Siam == <<"S", "i", "a", "m">>
Asok == <<"A", "s", "o", "k">>
N1 == <<"N", "1">>

\* The names a station of the model may carry, in the order used to list
\* the station tables.
NamePool == <<Asok, Siam, N1>>

\* Ids of the stored stations and of the train lines (one train route per
\* line, with the line's id).
ExportStationIds == {1, 2, 3}
LineIds == {1, 2}

\* Rows of route_segments and of intersection_segments stored at most.
MaxSegments == 2
MaxTransfers == 1

\* Station tables: nothing in the exporter depends on a station's id, so
\* one table per multiset of names is listed.
StationTables ==
    {[i \in ExportStationIds |-> NamePool[f[i]]] :
        f \in {g \in [ExportStationIds -> DOMAIN NamePool] :
                  \A i, j \in ExportStationIds : i < j => g[i] <= g[j]}}

\* Line 1 is active; line 2 is active or not.
LineTables == {[l \in LineIds |-> IF l = 1 THEN "active" ELSE st] : st \in {"active", "inactive"}}

\* A row of route_segments or intersection_segments, as far as the exporter
\* reads it.  RouteSegmentCreate rejects from_station_id = to_station_id.
SegmentRows ==
    {r \in [from_station_id : ExportStationIds, to_station_id : ExportStationIds,
             status : {"active", "inactive"}] :
        r.from_station_id # r.to_station_id}

\* UniqueConstraint('train_route_id', 'from_station_id', 'to_station_id');
\* segment_order is the position in the sequence.
RouteSegmentsOk(rows) ==
    \A i, j \in DOMAIN rows :
        (rows[i].from_station_id = rows[j].from_station_id
         /\ rows[i].to_station_id = rows[j].to_station_id) => i = j

SegmentSeqs(n) == {rows \in [1..n -> SegmentRows] : RouteSegmentsOk(rows)}

SegmentTables ==
    UNION {{[l \in LineIds |-> IF l = 1 THEN a ELSE b] :
               a \in SegmentSeqs(n), b \in SegmentSeqs(m)} :
           n \in 0..MaxSegments, m \in 0..MaxSegments}

TransferTables ==
    {trs \in UNION {{{t} : t \in SegmentRows}, {{}}, {{t, u} : t \in SegmentRows, u \in SegmentRows}} :
        Cardinality(trs) <= MaxTransfers}

SegmentCount(segs) == SumSeq([l \in LineIds |-> Len(segs[l])])

ExportInit ==
    /\ station_names \in StationTables
    /\ line_status \in LineTables
    /\ route_segments \in {segs \in SegmentTables : SegmentCount(segs) <= MaxSegments}
    /\ transfers \in TransferTables
    /\ export = NoExport
    /\ second_export = NoExport
    /\ PathIdle
    /\ NameIdle
    /\ TasksIdle
    /\ MgmtIdle

ExportResult(op, line_id, include, graphs, metadata) ==
    [op |-> op, line |-> line_id, include |-> include, graphs |-> graphs, metadata |-> metadata]

\* The result of the service call behind the endpoints that return the
\* complete graph or its metadata.
CompleteGraphCall(rows) ==
    GenerateCompleteGraph(station_names, line_status, route_segments, rows)

\* GET /graph/routes
GenerateRoutesGraphByRoute(include_intersections) ==
    /\ export = NoExport
    /\ \E rows \in ActiveTransferOrders(transfers) :
          export' = ExportResult("routes", 0, include_intersections,
                        GetGraphByRoutes(station_names, line_status, route_segments,
                                         include_intersections, rows),
                        <<>>)
    /\ UNCHANGED <<station_names, line_status, route_segments, transfers, second_export,
                   pathVars, nameVars, taskVars, mgmtVars>>

\* GET /graph/routes/single
GenerateSingleRouteGraph(line_id) ==
    /\ export = NoExport
    /\ export' = ExportResult("line", line_id, FALSE,
                     <<[line |-> line_id,
                        graph |-> GetGraphByLineId(station_names, line_status,
                                                   route_segments, line_id).graph]>>,
                     <<>>)
    /\ UNCHANGED <<station_names, line_status, route_segments, transfers, second_export,
                   pathVars, nameVars, taskVars, mgmtVars>>

\* GET /graph/routes/adjacency-list; line_id 0 stands for no line_id.
GetAdjacencyListOnly(include_intersections, line_id) ==
    /\ export = NoExport
    /\ IF line_id # 0
       THEN export' = ExportResult("line", line_id, FALSE,
                          <<[line |-> line_id,
                             graph |-> GetGraphByLineId(station_names, line_status,
                                                        route_segments, line_id).graph]>>,
                          <<>>)
       ELSE IF include_intersections
       THEN \E rows \in ActiveTransferOrders(transfers) :
               export' = ExportResult("complete", 0, TRUE,
                             <<[line |-> 0, graph |-> CompleteGraphCall(rows).graph]>>, <<>>)
       ELSE export' = ExportResult("segments", 0, FALSE,
                          <<[line |-> 0,
                             graph |-> BuildGraphFromRouteSegments(station_names, route_segments)]>>,
                          <<>>)
    /\ UNCHANGED <<station_names, line_status, route_segments, transfers, second_export,
                   pathVars, nameVars, taskVars, mgmtVars>>

\* GET /graph/routes/metadata
GetGraphMetadata(include_intersections) ==
    /\ export = NoExport
    /\ IF include_intersections
       THEN \E rows \in ActiveTransferOrders(transfers) :
               export' = ExportResult("metadata", 0, TRUE, <<>>, CompleteGraphCall(rows).metadata)
       ELSE export' = ExportResult("metadata", 0, FALSE, <<>>,
                          GenerateMetadata(BuildGraphFromRouteSegments(station_names, route_segments),
                                           line_status))
    /\ UNCHANGED <<station_names, line_status, route_segments, transfers, second_export,
                   pathVars, nameVars, taskVars, mgmtVars>>

ExportNext ==
    \/ \E include \in BOOLEAN : GenerateRoutesGraphByRoute(include)
    \/ \E line_id \in LineIds : GenerateSingleRouteGraph(line_id)
    \/ \E include \in BOOLEAN, line_id \in LineIds \cup {0} : GetAdjacencyListOnly(include, line_id)
    \/ \E include \in BOOLEAN : GetGraphMetadata(include)

SpecExport == ExportInit /\ [][ExportNext]_vars

----------------------------------------------------------------------------
(* Claims about the exporter.                                              *)

Exported == export # NoExport

Keys(graph) == Range(graph.keys)
Values(graph) == UNION {Range(graph.nbrs[k]) : k \in Keys(graph)}

ActiveRouteEdges(l) ==
    {route_segments[l][i] : i \in {j \in DOMAIN route_segments[l] :
                                      route_segments[l][j].status = "active"}}
ActiveTransferEdges == {t \in transfers : t.status = "active"}

References(edge, nm) ==
    station_names[edge.from_station_id] = nm \/ station_names[edge.to_station_id] = nm

Qualifies(edge) ==
    /\ IsRealStationName(station_names[edge.from_station_id])
    /\ IsRealStationName(station_names[edge.to_station_id])

\* The edges folded into one adjacency list of the last export: all route
\* edges (and all transfer edges when requested) for the full graph, the
\* line's route edges for a single-line graph, and for a line's list of
\* the per-route export the line's route edges and, with transfers
\* included, the transfer edges touching a station of that list.
EdgesOf(entry) ==
    CASE export.op = "segments" -> UNION {ActiveRouteEdges(l) : l \in LineIds}
      [] export.op = "complete" ->
            UNION {ActiveRouteEdges(l) : l \in LineIds} \cup ActiveTransferEdges
      [] export.op = "line" -> ActiveRouteEdges(entry.line)
      [] export.op = "routes" ->
            ActiveRouteEdges(entry.line)
            \cup (IF export.include
                  THEN {t \in ActiveTransferEdges :
                           \E k \in Keys(entry.graph) : References(t, k)}
                  ELSE {})
      [] OTHER -> {}

C9_N1NeverExported ==
    Exported =>
        \A i \in DOMAIN export.graphs :
            N1 \notin Keys(export.graphs[i].graph) \cup Values(export.graphs[i].graph)

C9_SiamIsAKey ==
    Exported =>
        \A i \in DOMAIN export.graphs :
            (\E edge \in EdgesOf(export.graphs[i]) : Qualifies(edge) /\ References(edge, Siam))
                => Siam \in Keys(export.graphs[i].graph)

\* C9: in every adjacency list an exporter operation produces, "N1" is
\* neither a key nor a neighbor, and "Siam" is a key whenever an active edge
\* of that list, with both endpoint names passing the filter, references it.
C9_FilteredNamesAndKeys == C9_N1NeverExported /\ C9_SiamIsAKey

NoDuplicates(list) == \A i, j \in DOMAIN list : list[i] = list[j] => i = j

Symmetric(graph) ==
    \A a \in Keys(graph) : \A b \in Range(graph.nbrs[a]) :
        b \in Keys(graph) /\ a \in Range(graph.nbrs[b])

FullOrSingleLine == Exported /\ export.op \in {"complete", "segments", "line"}

\* C11: in the full graph and in a single-line graph, B is a neighbor of A
\* exactly when A is a neighbor of B, and no neighbor list holds a name
\* twice, also when an edge is stored twice or together with its reverse.
C11_SymmetricWithoutDuplicates ==
    FullOrSingleLine =>
        \A i \in DOMAIN export.graphs :
            /\ Symmetric(export.graphs[i].graph)
            /\ \A a \in Keys(export.graphs[i].graph) :
                  NoDuplicates(export.graphs[i].graph.nbrs[a])

\* The full graph of an edge of line 1 stored together with its reverse on
\* line 2, between two stations with different real names.
C11_Witness ==
    /\ Exported /\ export.op = "complete"
    /\ \E i \in DOMAIN route_segments[1], j \in DOMAIN route_segments[2] :
          /\ route_segments[1][i].status = "active"
          /\ route_segments[2][j].status = "active"
          /\ route_segments[1][i].from_station_id = route_segments[2][j].to_station_id
          /\ route_segments[1][i].to_station_id = route_segments[2][j].from_station_id
          /\ station_names[route_segments[1][i].from_station_id] = Asok
          /\ station_names[route_segments[1][i].to_station_id] = Siam
    /\ export.graphs[1].graph.nbrs[Asok] = <<Siam>>
    /\ export.graphs[1].graph.nbrs[Siam] = <<Asok>>

Sorted(list) == \A i, j \in DOMAIN list : i < j => ~NameLess(list[j], list[i])

NeighborListsSorted(graph) == \A a \in Keys(graph) : Sorted(graph.nbrs[a])

\* C12: every neighbor list of every adjacency list returned to a caller is
\* sorted: the full graph with transfers, the full graph without transfers,
\* the single-line graph and every per-route graph.
C12_EveryNeighborListSorted ==
    Exported => \A i \in DOMAIN export.graphs : NeighborListsSorted(export.graphs[i].graph)

----------------------------------------------------------------------------
(* Specification of two successive calls of the full-graph export on the   *)
(* same stored data.  The rows are all active (the queries drop the others *)
(* before any row order matters) and there are up to RepeatTransfers       *)
(* intersection segments, which the query returns in any order.            *)

RepeatTransfers == 2

AllActive(rows) == \A r \in rows : r.status = "active"

RepeatInit ==
    /\ station_names \in StationTables
    /\ line_status = [l \in LineIds |-> "active"]
    /\ route_segments \in {segs \in SegmentTables :
                              /\ SegmentCount(segs) <= MaxSegments
                              /\ \A l \in LineIds : AllActive(Range(segs[l]))}
    /\ transfers \in {trs \in SUBSET SegmentRows :
                         Cardinality(trs) <= RepeatTransfers /\ AllActive(trs)}
    /\ export = NoExport
    /\ second_export = NoExport
    /\ PathIdle
    /\ NameIdle
    /\ TasksIdle
    /\ MgmtIdle

\* GET /graph/routes/adjacency-list once more, on unchanged data.
GetAdjacencyListOnlyAgain ==
    /\ export # NoExport
    /\ second_export = NoExport
    /\ \E rows \in ActiveTransferOrders(transfers) :
          second_export' = ExportResult("complete", 0, TRUE,
                               <<[line |-> 0, graph |-> CompleteGraphCall(rows).graph]>>, <<>>)
    /\ UNCHANGED <<station_names, line_status, route_segments, transfers, export,
                   pathVars, nameVars, taskVars, mgmtVars>>

RepeatNext ==
    \/ GetAdjacencyListOnly(TRUE, 0)
    \/ GetAdjacencyListOnlyAgain

SpecRepeat == RepeatInit /\ [][RepeatNext]_vars

SameAdjacency(g, h) == Keys(g) = Keys(h) /\ \A k \in Keys(g) : g.nbrs[k] = h.nbrs[k]

\* The full graph as generate_complete_graph builds it when the two queries
\* return their rows in the orders `segs` and `rows`.
CompleteGraphOf(segs, rows) ==
    SortGraph(AddIntersectionSegmentsToGraph(AddSegments(EmptyGraph, station_names, segs),
                                             station_names, rows))

\* C13: two successive calls of the full-graph export on unchanged data
\* return the same adjacency list (same keys, same neighbor sequences), and
\* so does the export for any other order of the route-segment rows and of
\* the transfer-segment rows.
C13_FullGraphIsDeterministic ==
    second_export # NoExport =>
        /\ SameAdjacency(export.graphs[1].graph, second_export.graphs[1].graph)
        /\ \A segs \in Orderings(Range(AllActiveSegments(route_segments, 1))),
              rows \in ActiveTransferOrders(transfers) :
              SameAdjacency(export.graphs[1].graph, CompleteGraphOf(segs, rows))

\* Two calls that met the transfer rows in different orders: the keys were
\* inserted in different orders, and a station has more than one neighbor.
C13_Witness ==
    /\ second_export # NoExport
    /\ Cardinality(transfers) = 2
    /\ export.graphs[1].graph.keys # second_export.graphs[1].graph.keys
    /\ \E k \in Keys(export.graphs[1].graph) : Len(export.graphs[1].graph.nbrs[k]) >= 2

\* The distinct connections between station names in an adjacency list.
Connections(graph) == UNION {{{a, b} : b \in Range(graph.nbrs[a])} : a \in Keys(graph)}

NeighborListLengths(graph) ==
    SumSeq([i \in DOMAIN graph.keys |-> Len(graph.nbrs[graph.keys[i]])])

MetadataCounts(metadata, graph) ==
    /\ metadata.total_nodes = Cardinality(Keys(graph))
    /\ metadata.total_connections = Cardinality(Connections(graph))
    /\ NeighborListLengths(graph) % 2 = 0

\* C14: in the metadata of every exported graph, total_nodes is the number
\* of keys of the adjacency list, total_connections is the number of
\* distinct connections between station names in it, and the sum of the
\* neighbor-list lengths is even.
C14_MetadataCountsTheGraph ==
    /\ (Exported /\ export.op = "metadata") =>
          \E rows \in ActiveTransferOrders(transfers) :
              MetadataCounts(export.metadata,
                             IF export.include
                             THEN CompleteGraphCall(rows).graph
                             ELSE BuildGraphFromRouteSegments(station_names, route_segments))
    /\ (Exported /\ export.op = "line") =>
          MetadataCounts(GetGraphByLineId(station_names, line_status, route_segments,
                                          export.line).metadata,
                         export.graphs[1].graph)

----------------------------------------------------------------------------
(* Distance first, duration second.                                        *)

\* The order on (distance, duration) pairs: by distance, ties by duration.
PairLess(x, y) == x[1] < y[1] \/ (x[1] = y[1] /\ x[2] < y[2])

PairMin(S) == CHOOSE x \in S : \A y \in S : ~PairLess(y, x)

EdgesBetween(a, b) ==
    {r \in StoredActive :
        \/ r.from_station_id = a /\ r.to_station_id = b
        \/ r.from_station_id = b /\ r.to_station_id = a}

PathCost(p, HopCost(_, _)) ==
    <<SumSeq([i \in 1..(Len(p) - 1) |-> HopCost(p[i], p[i + 1])[1]]),
      SumSeq([i \in 1..(Len(p) - 1) |-> HopCost(p[i], p[i + 1])[2]])>>

\* The stored (distance, duration) of the best edge between two stations.
StoredHopCost(a, b) ==
    PairMin({<<r.distance_km[1], r.duration_minutes[1]>> : r \in EdgesBetween(a, b)})

StoredPathCost(p) == PathCost(p, StoredHopCost)

AllWeightsStored ==
    \A r \in StoredActive : r.distance_km # <<>> /\ r.duration_minutes # <<>>

\* C15: with non-negative stored distances and durations on every active
\* edge, the chosen station sequence has the minimum cumulative distance,
\* and among the paths of that distance the minimum cumulative duration.
C15_ShortestThenQuickest ==
    (Requested /\ shortest_path # <<>> /\ AllWeightsStored) =>
        StoredPathCost(shortest_path) =
            PairMin({StoredPathCost(p) : p \in SimplePaths(ReqFrom, ReqTo)})

\* (distance_km, duration_minutes) values of the rows when routes of equal
\* cumulative distance are looked at: 1.00 km / 2 min, 2.00 km / 1 min and
\* 2.00 km / 5 min, so that two hops of 1.00 km tie with a direct edge that
\* is quicker, or slower, than the two hops together.
TieValues ==
    { [distance_km |-> <<100>>, duration_minutes |-> <<2>>, status |-> "active"],
      [distance_km |-> <<200>>, duration_minutes |-> <<1>>, status |-> "active"],
      [distance_km |-> <<200>>, duration_minutes |-> <<5>>, status |-> "active"] }

TieTables ==
    UNION { { {RouteRow(k[1], k[2], k[3], v[k]) : k \in K} : v \in [K -> TieValues] } :
            K \in {K0 \in SUBSET RouteKeys(StationIds) : Cardinality(K0) <= MaxRoutes} }

TieInit ==
    /\ stations = StationIds
    /\ routes \in TieTables
    /\ request = NoRequest
    /\ shortest_path = <<>>
    /\ result = NoResult
    /\ reverse_result = NoResult
    /\ NameIdle
    /\ ExportIdle
    /\ TasksIdle
    /\ MgmtIdle

SpecTie == TieInit /\ [][PathNext]_vars

\* The (distance, duration) the engine weighs the best edge between two
\* stations with.
UsedHopCost(a, b) ==
    PairMin({<<EdgeDistance(r), EdgeDuration(r)>> : r \in EdgesBetween(a, b)})

UsedPathCost(p) == PathCost(p, UsedHopCost)

\* The routes table with the duration of one row replaced.
WithDuration(r, d) == (routes \ {r}) \cup {[r EXCEPT !.duration_minutes = <<d>>]}

----------------------------------------------------------------------------
(* Edges with a missing distance or duration.                              *)

DistanceMissing(a, b) == \A r \in EdgesBetween(a, b) : r.distance_km = <<>>
DurationMissing(a, b) == \A r \in EdgesBetween(a, b) : r.duration_minutes = <<>>

Succeeded == Requested /\ result.kind = "response" /\ result.success

\* Whenever a response reports hops, a hop over edges without a distance
\* reports 1.0 km, a hop over edges without a duration reports 10 minutes,
\* and the totals are the sums over the hops.
PlaceholdersWhenReported ==
    Succeeded =>
        /\ TotalsAreSums(result)
        /\ \A i \in DOMAIN result.route_segments :
              LET hop == result.route_segments[i]
              IN  /\ DistanceMissing(hop.from_station_id, hop.to_station_id)
                        => hop.distance_km = 100
                  /\ DurationMissing(hop.from_station_id, hop.to_station_id)
                        => hop.duration_minutes = 10

\* Two stations joined by active edges always get a path, whatever weights
\* are missing.
ConnectedGetsPath ==
    (Requested /\ {ReqFrom, ReqTo} \subseteq stations /\ ReqFrom # ReqTo
        /\ Connected(ReqFrom, ReqTo))
        => shortest_path # <<>>

TraversesMissingWeight ==
    \E i \in 1..(Len(shortest_path) - 1) :
        \/ DistanceMissing(shortest_path[i], shortest_path[i + 1])
        \/ DurationMissing(shortest_path[i], shortest_path[i + 1])

\* C17: active edges with a missing distance or duration keep their
\* endpoints connected, and whenever the chosen route traverses such an
\* edge the response reports every hop of the route, with 1.0 km for a
\* missing distance and 10 minutes for a missing duration, summed into the
\* totals.
C17_MissingWeightsGetPlaceholders ==
    /\ ConnectedGetsPath
    /\ PlaceholdersWhenReported
    /\ (Requested /\ TraversesMissingWeight) =>
          /\ Succeeded
          /\ HopsFollow(shortest_path, result.route_segments)

----------------------------------------------------------------------------
(* Specification of the path engine on a network of two lines with         *)
(* interchanges: rows of `routes` on lines 1 and 2 and rows of             *)
(* `intersection_segments` between the stations.                           *)

\* Rows of `routes` stored at most in this specification.
InterchangeRoutes == 2

InterchangeRouteTables ==
    { {RouteRow(k[1], k[2], k[3],
                [distance_km |-> <<100>>, duration_minutes |-> <<2>>, status |-> "active"]) :
          k \in K} :
      K \in {K0 \in SUBSET (LineIds \X StationIds \X StationIds) :
                Cardinality(K0) <= InterchangeRoutes} }

InterchangeInit ==
    /\ stations = StationIds
    /\ routes \in InterchangeRouteTables
    /\ transfers \in TransferTables
    /\ request = NoRequest
    /\ shortest_path = <<>>
    /\ result = NoResult
    /\ reverse_result = NoResult
    /\ station_names = <<>>
    /\ line_status = <<>>
    /\ route_segments = <<>>
    /\ export = NoExport
    /\ second_export = NoExport
    /\ NameIdle
    /\ TasksIdle
    /\ MgmtIdle

SpecInterchange == InterchangeInit /\ [][PathNext]_vars

\* One step along an active route edge or an active transfer edge.
Linked(a, b) ==
    \/ Adjacent(a, b)
    \/ \E t \in ActiveTransferEdges :
          \/ t.from_station_id = a /\ t.to_station_id = b
          \/ t.from_station_id = b /\ t.to_station_id = a

RECURSIVE LinkedFrom(_)
LinkedFrom(S) ==
    LET T == S \cup {b \in StationIds : \E a \in S : Linked(a, b)}
    IN  IF T = S THEN S ELSE LinkedFrom(T)

\* C18: the pathfinding graph holds the active transfer edges as well as
\* the active route edges, so two different stations linked through route
\* and transfer edges get a path and the request is not answered with a
\* failure.
C18_TransfersJoinLines ==
    (Requested /\ ReqFrom # ReqTo /\ ReqTo \in LinkedFrom({ReqFrom})) =>
        /\ shortest_path # <<>>
        /\ ~IsFailure(result)

----------------------------------------------------------------------------
(* Requests served step by step.  A handler runs without interruption from *)
(* one `await` of a query to the next, so one action is one query together *)
(* with the code that follows it up to the next query.  The locals of a    *)
(* request live in tasks[k]; the session of a request is its own           *)
(* (get_db opens one per request).                                         *)

\* The stored data as one value.
Db ==
    [stations |-> stations, routes |-> routes, line_status |-> line_status,
     route_segments |-> route_segments, transfers |-> transfers]

InFlight(k) == tasks[k] # NoTask /\ tasks[k].pc # "done"
Done(k) == tasks[k] # NoTask /\ tasks[k].pc = "done"

\* The other requests that are between two of their queries.
Overlapping(k) == {j \in TaskIds \ {k} : InFlight(j)}

TaskStations_Shared(k) ==
    IF \E j \in TaskIds \ {k} : tasks[j].kind = "path"
    THEN tasks[CHOOSE j \in TaskIds \ {k} : tasks[j].kind = "path"].found
    ELSE tasks[k].found
\* The local dict `stations` of request k.
TaskStations(k) == tasks[k].found

\* POST /distance/calculate up to the routes query: the stations query and
\* the three early returns.
BeginCalculate(k, f, t) ==
    /\ tasks[k] = NoTask
    /\ LET found == StationsLookup(stations, f, t)
           early == f \notin found \/ t \notin found \/ IsSameStation(f, t)
       IN  tasks' = [tasks EXCEPT ![k] =
                        [kind |-> "path", from |-> f, to |-> t, found |-> found,
                         pc |-> IF early THEN "done" ELSE "routes_query",
                         result |-> IF early
                                    THEN CalculateDistanceAndTime(found, <<>>, f, t)
                                    ELSE NoResult,
                         met |-> Overlapping(k)]]
    /\ history' = [history EXCEPT ![k] = {Db}]
    /\ UNCHANGED <<writes, pathVars, nameVars, exportVars, mgmtVars>>

\* The routes query and the rest of the handler.
FinishCalculate(k) ==
    /\ tasks[k] # NoTask /\ tasks[k].kind = "path" /\ tasks[k].pc = "routes_query"
    /\ \E rows \in Orderings(ActiveRoutes(routes)) :
          tasks' = [tasks EXCEPT ![k] =
                       [@ EXCEPT !.pc = "done",
                                 !.result = CalculateDistanceAndTime(TaskStations(k), rows,
                                                                     tasks[k].from, tasks[k].to),
                                 !.met = @ \cup Overlapping(k)]]
    /\ UNCHANGED <<history, writes, pathVars, nameVars, exportVars, mgmtVars>>

\* generate_complete_graph up to the intersection-segment query:
\* build_graph_from_route_segments.
BeginCompleteGraph(k) ==
    /\ tasks[k] = NoTask
    /\ tasks' = [tasks EXCEPT ![k] =
                    [kind |-> "graph", pc |-> "transfers_query",
                     graph |-> BuildGraphFromRouteSegments(station_names, route_segments),
                     result |-> NoResult,
                     met |-> Overlapping(k)]]
    /\ history' = [history EXCEPT ![k] = {Db}]
    /\ UNCHANGED <<writes, pathVars, nameVars, exportVars, mgmtVars>>

\* add_intersection_segments_to_graph.
AddTransfersToGraph(k) ==
    /\ tasks[k] # NoTask /\ tasks[k].kind = "graph" /\ tasks[k].pc = "transfers_query"
    /\ \E rows \in ActiveTransferOrders(transfers) :
          tasks' = [tasks EXCEPT ![k] =
                       [@ EXCEPT !.pc = "lines_query",
                                 !.graph = AddIntersectionSegmentsToGraph(@, station_names, rows),
                                 !.met = @ \cup Overlapping(k)]]
    /\ UNCHANGED <<history, writes, pathVars, nameVars, exportVars, mgmtVars>>

\* generate_metadata, the final sort and the return.
FinishCompleteGraph(k) ==
    /\ tasks[k] # NoTask /\ tasks[k].kind = "graph" /\ tasks[k].pc = "lines_query"
    /\ tasks' = [tasks EXCEPT ![k] =
                    [@ EXCEPT !.pc = "done",
                              !.result = [graph |-> SortGraph(tasks[k].graph),
                                          metadata |-> GenerateMetadata(tasks[k].graph,
                                                                       line_status)],
                              !.met = @ \cup Overlapping(k)]]
    /\ UNCHANGED <<history, writes, pathVars, nameVars, exportVars, mgmtVars>>

TaskStep(k) ==
    \/ \E f, t \in StationIds : BeginCalculate(k, f, t)
    \/ FinishCalculate(k)
    \/ BeginCompleteGraph(k)
    \/ AddTransfersToGraph(k)
    \/ FinishCompleteGraph(k)

\* The stored data of the specifications of requests served step by step:
\* the three stations, at most one route between stations 1 and 2, at most
\* one active route segment on line 1 and at most one active transfer.
SmallRouteTables ==
    {{}} \cup {{RouteRow(1, f, t, [distance_km |-> <<100>>, duration_minutes |-> <<2>>,
                                   status |-> "active"])} :
                  f \in {1, 2}, t \in {1, 2}}

SmallSegmentRows == {r \in SegmentRows : r.status = "active"}

SmallData ==
    /\ stations = StationIds
    /\ routes \in SmallRouteTables
    /\ station_names = <<Asok, Siam, N1>>
    /\ line_status = [l \in LineIds |-> "active"]
    /\ route_segments \in {[l \in LineIds |-> IF l = 1 THEN rows ELSE <<>>] :
                              rows \in {<<>>} \cup {<<r>> : r \in SmallSegmentRows}}
    /\ transfers \in {{}} \cup {{r} : r \in SmallSegmentRows}

ConcurrentInit ==
    /\ SmallData
    /\ request = NoRequest
    /\ shortest_path = <<>>
    /\ result = NoResult
    /\ reverse_result = NoResult
    /\ export = NoExport
    /\ second_export = NoExport
    /\ NameIdle
    /\ TasksIdle
    /\ MgmtIdle

ConcurrentNext == \E k \in TaskIds : TaskStep(k)

SpecConcurrent == ConcurrentInit /\ [][ConcurrentNext]_vars

\* The result of a finished request is one it returns when it runs alone
\* on the stored data.
AsWhenAlone(task, db) ==
    IF task.kind = "path"
    THEN \E rows \in Orderings(ActiveRoutes(db.routes)) :
            task.result = CalculateDistanceAndTime(db.stations, rows, task.from, task.to)
    ELSE \E rows \in ActiveTransferOrders(db.transfers) :
            task.result = GenerateCompleteGraph(station_names, db.line_status,
                                                db.route_segments, rows)

\* C19: on unchanged stored data, the result of every request, pathfinding
\* or graph export, in any interleaving with other requests is a result it
\* returns when it runs alone.
C19_InterleavingIsInvisible ==
    \A k \in TaskIds : Done(k) => AsWhenAlone(tasks[k], Db)

\* A pathfinding request that found a route and a graph export, each of
\* which took a step while the other was between two of its queries.
C19_Witness ==
    /\ Done(1) /\ Done(2)
    /\ tasks[1].kind = "path" /\ tasks[1].result.success /\ 2 \in tasks[1].met
    /\ tasks[2].kind = "graph" /\ 1 \in tasks[2].met
    /\ tasks[2].result.graph.keys # <<>>

----------------------------------------------------------------------------
(* Requests served step by step while other clients commit writes.  The    *)
(* session of a request runs at the default isolation level of the         *)
(* database (none is set in database.py): every query of a request reads   *)
(* the data committed when the query runs.                                 *)

\* Writes committed by other clients at most.
MaxWrites == 2

DbOf(sts, rts, ls, segs, trs) ==
    [stations |-> sts, routes |-> rts, line_status |-> ls,
     route_segments |-> segs, transfers |-> trs]

\* A committed write that leaves the stored data as `after`.
Commit(after) ==
    /\ writes < MaxWrites
    /\ writes' = writes + 1
    /\ history' = [k \in TaskIds |->
                      IF InFlight(k) THEN history[k] \cup {after} ELSE history[k]]

StationReferenced(id) ==
    \/ \E r \in routes : r.from_station_id = id \/ r.to_station_id = id
    \/ \E l \in LineIds : \E i \in DOMAIN route_segments[l] :
          route_segments[l][i].from_station_id = id \/ route_segments[l][i].to_station_id = id
    \/ \E t \in transfers : t.from_station_id = id \/ t.to_station_id = id

\* RouteService.create_route
CreateRoute(f, t) ==
    /\ {f, t} \subseteq stations
    /\ \A r \in routes : RouteKey(r) # <<1, f, t>>
    /\ routes' = routes \cup {RouteRow(1, f, t, [distance_km |-> <<100>>,
                                                duration_minutes |-> <<2>>,
                                                status |-> "active"])}
    /\ Commit(DbOf(stations, routes', line_status, route_segments, transfers))
    /\ UNCHANGED <<stations, request, shortest_path, result, reverse_result, tasks,
                   nameVars, exportVars, mgmtVars>>

\* RouteService.delete_route
DeleteRoute(f, t) ==
    /\ \E r \in routes : RouteKey(r) = <<1, f, t>>
    /\ routes' = {r \in routes : RouteKey(r) # <<1, f, t>>}
    /\ Commit(DbOf(stations, routes', line_status, route_segments, transfers))
    /\ UNCHANGED <<stations, request, shortest_path, result, reverse_result, tasks,
                   nameVars, exportVars, mgmtVars>>

\* delete_station of the stations router with StationService.delete_station;
\* the foreign keys refuse a station that a route or a segment refers to.
DeleteStation(id) ==
    /\ id \in stations
    /\ ~StationReferenced(id)
    /\ stations' = stations \ {id}
    /\ Commit(DbOf(stations', routes, line_status, route_segments, transfers))
    /\ UNCHANGED <<routes, request, shortest_path, result, reverse_result, tasks,
                   nameVars, exportVars, mgmtVars>>

\* RouteManagementService.delete_segment: the row goes and the rows after
\* it move up.
DeleteSegment(l, i) ==
    /\ i \in DOMAIN route_segments[l]
    /\ route_segments' = [route_segments EXCEPT ![l] = RemoveAt(@, i)]
    /\ Commit(DbOf(stations, routes, line_status, route_segments', transfers))
    /\ UNCHANGED <<station_names, line_status, transfers, export, second_export,
                   pathVars, nameVars, tasks, mgmtVars>>

\* IntersectionManagementService.create_intersection_segment
CreateIntersectionSegment(row) ==
    /\ {row.from_station_id, row.to_station_id} \subseteq stations
    /\ row \notin transfers
    /\ transfers' = transfers \cup {row}
    /\ Commit(DbOf(stations, routes, line_status, route_segments, transfers'))
    /\ UNCHANGED <<station_names, line_status, route_segments, export, second_export,
                   pathVars, nameVars, tasks, mgmtVars>>

Write ==
    \/ \E f, t \in StationIds : CreateRoute(f, t)
    \/ \E f, t \in StationIds : DeleteRoute(f, t)
    \/ \E id \in StationIds : DeleteStation(id)
    \/ \E l \in LineIds : \E i \in 1..MaxSegments : DeleteSegment(l, i)
    \/ \E row \in SmallSegmentRows : CreateIntersectionSegment(row)

SnapshotNext ==
    \/ TaskStep(1)
    \/ Write

\* The stored data before the writes: the three stations, no route, one
\* active route segment Asok - Siam on line 1 and no transfer.
SnapshotInit ==
    /\ stations = StationIds
    /\ routes = {}
    /\ station_names = <<Asok, Siam, N1>>
    /\ line_status = [l \in LineIds |-> "active"]
    /\ route_segments = [l \in LineIds |->
                            IF l = 1
                            THEN <<[from_station_id |-> 1, to_station_id |-> 2,
                                    status |-> "active"]>>
                            ELSE <<>>]
    /\ transfers = {}
    /\ request = NoRequest
    /\ shortest_path = <<>>
    /\ result = NoResult
    /\ reverse_result = NoResult
    /\ export = NoExport
    /\ second_export = NoExport
    /\ NameIdle
    /\ TasksIdle
    /\ MgmtIdle

SpecSnapshot == SnapshotInit /\ [][SnapshotNext]_vars

\* C20: the result of a request is the result for one single state of the
\* stored data that existed while the request was served, also when other
\* clients commit writes between its queries.
C20_ResultOfOneSnapshot ==
    \A k \in TaskIds : Done(k) => \E db \in history[k] : AsWhenAlone(tasks[k], db)

----------------------------------------------------------------------------
(* The operations that create or update an edge: a row of `routes`, of     *)
(* `route_segments` or of `intersection_segments`.  Each table of this     *)
(* part holds one row at most.  A payload is checked by the validators of  *)
(* its pydantic schema before the service runs.                            *)

EdgeTables == {"routes", "route_segments", "intersection_segments"}

\* Station ids, distances (hundredths of a km) and durations a payload names.
EdgeStations == {1, 2}
DistanceInputs == {0 - 100, 0, 100}
DurationInputs == {0, 5}

Nullable(S) == {<<>>} \cup {<<v>> : v \in S}

EdgeRow(f, t, dist, dur) ==
    [from_station_id |-> f, to_station_id |-> t, distance_km |-> dist,
     duration_minutes |-> dur]

\* RouteCreate: both stations required, distance and duration optional, no
\* validator; fields_set is the set of optional fields the payload names.
RoutePayloads ==
    [from_station_id : EdgeStations, to_station_id : EdgeStations,
     distance_km : Nullable(DistanceInputs), duration_minutes : Nullable(DurationInputs),
     fields_set : SUBSET {"distance_km", "duration_minutes"}]

\* RouteSegmentCreate with the validators of RouteSegmentBase, and
\* IntersectionSegmentCreate with its validators.
CreatePayloads ==
    [from_station_id : EdgeStations, to_station_id : EdgeStations,
     distance_km : DistanceInputs, duration_minutes : DurationInputs]

RouteSegmentBaseValid(data) ==
    /\ data.from_station_id > 0 /\ data.to_station_id > 0
    /\ data.distance_km > 0
    /\ data.duration_minutes > 0
    /\ data.to_station_id # data.from_station_id

IntersectionSegmentCreateValid(data) ==
    /\ data.distance_km > 0
    /\ data.duration_minutes > 0
    /\ data.to_station_id # data.from_station_id

\* RouteSegmentUpdate (no validator) and IntersectionSegmentUpdate: every
\* field optional, <<>> for a field that is absent or null.
UpdatePayloads ==
    [from_station_id : Nullable(EdgeStations), to_station_id : Nullable(EdgeStations),
     distance_km : Nullable(DistanceInputs), duration_minutes : Nullable(DurationInputs)]

IntersectionSegmentUpdateValid(data) ==
    /\ data.distance_km # <<>> => data.distance_km[1] > 0
    /\ data.duration_minutes # <<>> => data.duration_minutes[1] > 0

\* x or y on an optional station id.
OrElse(x, y) == IF x # <<>> THEN x[1] ELSE y

\* The CHECK constraints table `route_segments` has when
\* create_route_management_tables.py created it.
RouteSegmentChecks(row) ==
    /\ row.from_station_id # row.to_station_id
    /\ row.distance_km[1] > 0
    /\ row.duration_minutes[1] > 0

Store(table, row) ==
    /\ edges' = [edges EXCEPT ![table] = <<row>>]
    /\ UNCHANGED <<segment_checks, search, segmentVars, pathVars, nameVars, exportVars, taskVars>>

\* POST /routes: RouteService.create_route stores the payload as it is;
\* a field the payload does not name is None.
PostRoute(data) ==
    /\ edges["routes"] = <<>>
    /\ ("distance_km" \notin data.fields_set => data.distance_km = <<>>)
    /\ ("duration_minutes" \notin data.fields_set => data.duration_minutes = <<>>)
    /\ Store("routes", EdgeRow(data.from_station_id, data.to_station_id,
                               data.distance_km, data.duration_minutes))

\* PUT /routes/{id}: RouteService.update_route sets every field of
\* model_dump(exclude_unset=True).
PutRoute(data) ==
    /\ edges["routes"] # <<>>
    /\ LET route == edges["routes"][1] IN
       Store("routes",
             EdgeRow(data.from_station_id, data.to_station_id,
                     IF "distance_km" \in data.fields_set
                     THEN data.distance_km ELSE route.distance_km,
                     IF "duration_minutes" \in data.fields_set
                     THEN data.duration_minutes ELSE route.duration_minutes))

\* POST /train-routes/{id}/segments: add_route_segment.
PostRouteSegment(data) ==
    /\ edges["route_segments"] = <<>>
    /\ RouteSegmentBaseValid(data)
    /\ Store("route_segments", EdgeRow(data.from_station_id, data.to_station_id,
                                       <<data.distance_km>>, <<data.duration_minutes>>))

\* PUT /segments/{id}: update_route_segment; the statement fails on a CHECK
\* constraint of the table, where the table has them.
PutRouteSegment(data) ==
    /\ edges["route_segments"] # <<>>
    /\ LET segment == edges["route_segments"][1]
           from_station_id == OrElse(data.from_station_id, segment.from_station_id)
           to_station_id == OrElse(data.to_station_id, segment.to_station_id)
           row == EdgeRow(from_station_id, to_station_id,
                          IF data.distance_km # <<>>
                          THEN data.distance_km ELSE segment.distance_km,
                          IF data.duration_minutes # <<>>
                          THEN data.duration_minutes ELSE segment.duration_minutes)
       IN  /\ from_station_id # to_station_id
           /\ segment_checks => RouteSegmentChecks(row)
           /\ Store("route_segments", row)

\* POST /intersection-segments: create_intersection_segment.
PostIntersectionSegment(data) ==
    /\ edges["intersection_segments"] = <<>>
    /\ IntersectionSegmentCreateValid(data)
    /\ Store("intersection_segments",
             EdgeRow(data.from_station_id, data.to_station_id,
                     <<data.distance_km>>, <<data.duration_minutes>>))

\* PUT /intersection-segments/{id}: update_intersection_segment sets every
\* field of the payload that is not None.
PutIntersectionSegment(data) ==
    /\ edges["intersection_segments"] # <<>>
    /\ IntersectionSegmentUpdateValid(data)
    /\ LET segment == edges["intersection_segments"][1] IN
       Store("intersection_segments",
             EdgeRow(OrElse(data.from_station_id, segment.from_station_id),
                     OrElse(data.to_station_id, segment.to_station_id),
                     IF data.distance_km # <<>>
                     THEN data.distance_km ELSE segment.distance_km,
                     IF data.duration_minutes # <<>>
                     THEN data.duration_minutes ELSE segment.duration_minutes))

EdgesInit ==
    /\ edges = NoEdges
    /\ segment_checks \in BOOLEAN
    /\ search = NoSearch
    /\ SegmentsIdle
    /\ PathIdle
    /\ NameIdle
    /\ ExportIdle
    /\ TasksIdle

EdgesNext ==
    \/ \E data \in RoutePayloads : PostRoute(data)
    \/ \E data \in RoutePayloads : PutRoute(data)
    \/ \E data \in CreatePayloads : PostRouteSegment(data)
    \/ \E data \in UpdatePayloads : PutRouteSegment(data)
    \/ \E data \in CreatePayloads : PostIntersectionSegment(data)
    \/ \E data \in UpdatePayloads : PutIntersectionSegment(data)

SpecEdges == EdgesInit /\ [][EdgesNext]_vars

ValidEdge(row) ==
    /\ row.from_station_id # row.to_station_id
    /\ row.distance_km # <<>> /\ row.distance_km[1] > 0
    /\ row.duration_minutes # <<>> /\ row.duration_minutes[1] > 0

\* C21: after any sequence of create and update operations every stored
\* edge, of the routes, the route segments and the transfer segments, joins
\* two different stations and has a positive distance and a positive
\* duration.
C21_StoredEdgesAreValid ==
    \A table \in EdgeTables : edges[table] # <<>> => ValidEdge(edges[table][1])

----------------------------------------------------------------------------
(* The connections of the full graph.                                      *)

NamesOf(edge) == {station_names[edge.from_station_id], station_names[edge.to_station_id]}

EdgesOfActiveLines ==
    UNION {ActiveRouteEdges(l) : l \in {x \in LineIds : line_status[x] = "active"}}

FullGraphExported == Exported /\ export.op \in {"segments", "complete"}

\* C22: the full graph connects two names exactly when an active edge of an
\* active line, or with transfers requested an active transfer edge, joins
\* stations of these names and both names pass the filter; edges of inactive
\* lines contribute nothing.
C22_FullGraphIsTheActiveEdges ==
    FullGraphExported =>
        Connections(export.graphs[1].graph)
            = {NamesOf(edge) :
                  edge \in {e \in EdgesOfActiveLines
                                  \cup (IF export.op = "complete"
                                        THEN ActiveTransferEdges ELSE {}) :
                               Qualifies(e)}}

----------------------------------------------------------------------------
(* The order in which the outcome of a pathfinding request is decided.     *)

\* The first of the six cases that applies to the request.
CaseOfRequest ==
    IF ReqFrom \notin stations THEN "unknown source"
    ELSE IF ReqTo \notin stations THEN "unknown destination"
    ELSE IF ReqFrom = ReqTo THEN "same station"
    ELSE IF StoredActive = {} THEN "no active edges"
    ELSE IF ~Connected(ReqFrom, ReqTo) THEN "no path"
    ELSE "success"

\* The case the outcome of the request belongs to.
CaseOfResult ==
    IF result.kind # "response" THEN "exception"
    ELSE IF result.success
    THEN IF result.message = <<"Same station selected">> THEN "same station" ELSE "success"
    ELSE IF result.message = <<"From station with ID", ReqFrom, "not found">>
    THEN "unknown source"
    ELSE IF result.message = <<"To station with ID", ReqTo, "not found">>
    THEN "unknown destination"
    ELSE IF result.message = <<"No active routes found in the system">>
    THEN "no active edges"
    ELSE IF result.message = <<"No route found between the selected stations">>
    THEN "no path"
    ELSE "other"

FailureDecidedInOrder ==
    (Requested /\ CaseOfRequest # "success") =>
        /\ CaseOfResult = CaseOfRequest
        /\ CaseOfRequest # "same station" => IsFailure(result)

\* C23: the outcome of a request is that of the first case that applies:
\* unknown source, unknown destination, same station, no active edges, no
\* path, and success when none of these applies.
C23_OutcomeDecidedInOrder ==
    Requested => CaseOfResult = CaseOfRequest

----------------------------------------------------------------------------
(* _find_shortest_path one turn of its loop `while pq` at a time.          *)

\* Stored values of the rows the search runs on: 1.00 km / 2 min and
\* 0.00 km / 1 min.
SearchValues ==
    { [distance_km |-> <<100>>, duration_minutes |-> <<2>>, status |-> "active"],
      [distance_km |-> <<0>>,   duration_minutes |-> <<1>>, status |-> "active"] }

SearchTables ==
    UNION { { {RouteRow(k[1], k[2], k[3], v[k]) : k \in K} : v \in [K -> SearchValues] } :
            K \in {K0 \in SUBSET RouteKeys(StationIds) : Cardinality(K0) <= MaxRoutes} }

SearchInit ==
    /\ stations = StationIds
    /\ routes \in SearchTables
    /\ request = NoRequest
    /\ shortest_path = <<>>
    /\ result = NoResult
    /\ reverse_result = NoResult
    /\ NameIdle
    /\ ExportIdle
    /\ TasksIdle
    /\ MgmtIdle

\* visited.add(current_node)
Visit_Forgets(visited, node) == visited
Visit(visited, node) == visited \cup {node}

\* The handler reaches the call of _find_shortest_path for two different
\* stations when the routes query returned rows; the function returns None
\* before its loop when an endpoint is not a key of the graph.
BeginSearch(f, t) ==
    /\ search = NoSearch
    /\ f # t
    /\ \E rows \in Orderings(ActiveRoutes(routes)) :
          /\ rows # <<>>
          /\ LET graph == BuildGraph(rows) IN
             search' = IF f \notin DOMAIN graph \/ t \notin DOMAIN graph
                       THEN [status |-> "none", graph |-> graph, end |-> t, pq |-> <<>>,
                             visited |-> {}, expanded |-> <<>>, path |-> <<>>]
                       ELSE [status |-> "running", graph |-> graph, end |-> t,
                             pq |-> <<[distance |-> 0, duration |-> 0, node |-> f,
                                       path |-> <<f>>]>>,
                             visited |-> {}, expanded |-> <<>>, path |-> <<>>]
    /\ request' = <<f, t>>
    /\ UNCHANGED <<stations, routes, shortest_path, result, reverse_result, edgeVars,
                   segmentVars, nameVars, exportVars, taskVars>>

\* One test of `while pq` and, when the queue is not empty, one turn of the
\* loop; `expanded` lists the nodes whose neighbors were pushed.
SearchStep ==
    /\ search.status = "running"
    /\ IF search.pq = <<>>
       THEN search' = [search EXCEPT !.status = "none"]
       ELSE LET i == MinIndex(search.pq)
                cur == search.pq[i]
                rest == RemoveAt(search.pq, i)
                visited == Visit(search.visited, cur.node)
            IN  IF cur.node \in search.visited
                THEN search' = [search EXCEPT !.pq = rest]
                ELSE IF cur.node = search.end
                THEN search' = [search EXCEPT !.status = "found", !.pq = rest,
                                              !.visited = visited, !.path = cur.path]
                ELSE IF cur.node \in DOMAIN search.graph
                THEN search' = [search EXCEPT
                                  !.pq = rest \o Pushes(search.graph[cur.node], cur, visited),
                                  !.visited = visited,
                                  !.expanded = Append(@, cur.node)]
                ELSE search' = [search EXCEPT !.pq = rest, !.visited = visited]
    /\ UNCHANGED <<edgeVars, segmentVars, pathVars, nameVars, exportVars, taskVars>>

SearchNext ==
    \/ \E f, t \in StationIds : BeginSearch(f, t)
    \/ SearchStep

\* The loop keeps running until it returns.
SpecSearch == SearchInit /\ [][SearchNext]_vars /\ WF_vars(SearchStep)

SearchEnded == search.status \in {"found", "none"}

\* No station is expanded twice, the destination is never expanded, a
\* search that returns a path returns the path of the entry that popped
\* the destination, and a search that ran its loop to no path emptied the
\* queue.
SearchIsOrderly ==
    search # NoSearch =>
        /\ NoDuplicates(search.expanded)
        /\ search.end \notin Range(search.expanded)
        /\ search.status = "running" => search.end \notin search.visited
        /\ search.status = "found" =>
              /\ search.path[Len(search.path)] = search.end
              /\ search.path[1] = ReqFrom
        /\ search.status = "none" => search.pq = <<>>
        /\ SearchEnded => search.path = FindShortestPath(search.graph, ReqFrom, ReqTo)

\* C24: the search ends on every graph, with cycles, parallel edges,
\* self-loops and rows of distance 0: every station is expanded at most once,
\* the search returns when the destination is popped, and otherwise it ends
\* with no path when the queue is empty.
C24_SearchTerminates ==
    /\ [](SearchIsOrderly)
    /\ (search.status = "running") ~> SearchEnded

\* A search that returned a path of two hops on a graph with a self-loop
\* and a row of distance 0.
C24_Witness ==
    /\ search.status = "found" /\ Len(search.path) = 3
    /\ \E r \in routes : r.from_station_id = r.to_station_id
    /\ \E r \in routes : r.distance_km = <<0>>

----------------------------------------------------------------------------
(* Edges stored with distance 0.                                           *)

\* Every active edge between the two stations is stored with distance 0.
StoredAtZero(a, b) ==
    /\ EdgesBetween(a, b) # {}
    /\ \A r \in EdgesBetween(a, b) : r.distance_km = <<0>>

ZeroHopsReportedAsZero ==
    (Requested /\ result.kind = "response" /\ result.success) =>
        \A i \in DOMAIN result.route_segments :
            LET hop == result.route_segments[i] IN
            StoredAtZero(hop.from_station_id, hop.to_station_id) => hop.distance_km = 0

ZeroPathIsPreferred ==
    (/\ Requested /\ ReqFrom # ReqTo /\ {ReqFrom, ReqTo} \subseteq stations
     /\ \E p \in SimplePaths(ReqFrom, ReqTo) :
           \A i \in 1..(Len(p) - 1) : StoredAtZero(p[i], p[i + 1])) =>
        shortest_path # <<>> /\ \A i \in 1..(Len(shortest_path) - 1) :
                                    StoredAtZero(shortest_path[i], shortest_path[i + 1])

\* C25: an active edge stored with distance 0 is reported as a hop of
\* distance 0, and when a path of edges stored with distance 0 joins the two
\* stations, the chosen path is one of these.
C25_ZeroDistanceIsKept == ZeroHopsReportedAsZero /\ ZeroPathIsPreferred

----------------------------------------------------------------------------
(* The reported hops against the weights the search used.                  *)

\* The active edges between two stations whose weights are those the
\* search selected the hop with.
SelectedEdges(a, b) ==
    {r \in EdgesBetween(a, b) : <<EdgeDistance(r), EdgeDuration(r)>> = UsedHopCost(a, b)}

\* C26: the totals of a successful path are the cumulative distance and
\* duration the search minimised for it, and every hop reports the distance,
\* the duration and the line of an edge the search selected the hop with,
\* also when several active edges join the same two stations.
C26_ReportedWeightsAreTheUsedOnes ==
    (Succeeded /\ ReqFrom # ReqTo) =>
        /\ <<result.total_distance_km, result.total_duration_minutes>>
              = UsedPathCost(shortest_path)
        /\ \A i \in DOMAIN result.route_segments :
              LET hop == result.route_segments[i] IN
              \E r \in SelectedEdges(hop.from_station_id, hop.to_station_id) :
                  /\ hop.distance_km = EdgeDistance(r)
                  /\ hop.duration_minutes = EdgeDuration(r)
                  /\ hop.line_name = LineName(r.line_id)

----------------------------------------------------------------------------
(* The per-line adjacency lists of the per-route export with transfers.    *)

NeighborsAreKeys(graph) == Values(graph) \subseteq Keys(graph)

\* C27: in every per-line adjacency list of the per-route export with
\* transfers included, every neighbor is a key of that list, and B is a
\* neighbor of A if and only if A is a neighbor of B.
C27_PerLineListsAreClosed ==
    (Exported /\ export.op = "routes" /\ export.include) =>
        \A i \in DOMAIN export.graphs :
            /\ NeighborsAreKeys(export.graphs[i].graph)
            /\ Symmetric(export.graphs[i].graph)

----------------------------------------------------------------------------
(* Stations that share a display name.                                     *)

\* C28: in every exported adjacency list no name is in its own neighbor
\* list, also when an edge joins two different stations of the same name.
C28_NoNameIsItsOwnNeighbor ==
    Exported =>
        \A i \in DOMAIN export.graphs :
            \A k \in Keys(export.graphs[i].graph) :
                k \notin Range(export.graphs[i].graph.nbrs[k])

----------------------------------------------------------------------------
(* The segments of one train route: add_route_segment, move_segment and    *)
(* delete_segment of RouteManagementService, first one request at a time.  *)
(* A row is [id, from_station_id, to_station_id, segment_order].           *)

\* Number of segments ever added to the route at most.
MaxSegmentIds == 4

SetMax(S) == CHOOSE x \in S : \A y \in S : y <= x

\* select(func.max(RouteSegment.segment_order)) ... scalar_one_or_none() or 0
MaxOrder(rows) == IF rows = {} THEN 0 ELSE SetMax({r.segment_order : r \in rows})

SegmentRow(id, f, t, order) ==
    [id |-> id, from_station_id |-> f, to_station_id |-> t, segment_order |-> order]

\* UniqueConstraint('train_route_id', 'segment_order') and
\* UniqueConstraint('train_route_id', 'from_station_id', 'to_station_id')
UniqueOk(rows) ==
    \A r, q \in rows :
        r # q => /\ r.segment_order # q.segment_order
                 /\ <<r.from_station_id, r.to_station_id>>
                       # <<q.from_station_id, q.to_station_id>>

\* delete_segment's UPDATE: every row after the deleted one moves up.
ReorderAfter_Skipped(rows, deleted_order) == rows
ReorderAfter(rows, deleted_order) ==
    {IF r.segment_order > deleted_order
     THEN [r EXCEPT !.segment_order = @ - 1] ELSE r : r \in rows}

\* The three UPDATEs of move_segment: the segment goes to a temporary
\* order, the other segment takes its order, the segment takes new_order.
Swapped(rows, segment, swap_segment, new_order) ==
    {IF r.id = segment.id THEN [r EXCEPT !.segment_order = new_order]
     ELSE IF r.id = swap_segment.id
     THEN [r EXCEPT !.segment_order = segment.segment_order]
     ELSE r : r \in rows}

Ended(op, id, direction, outcome) ==
    last_op' = [op |-> op, id |-> id, direction |-> direction, result |-> outcome,
                before |-> train_route.rows]

OtherUnchanged == UNCHANGED <<ops, edgeVars, search, pathVars, nameVars, exportVars, taskVars>>

\* POST /routes/{route_id}/segments/: the new segment goes to the end; a
\* row the unique constraints refuse is not stored.
AddRouteSegment(f, t) ==
    /\ train_route.next_id <= MaxSegmentIds
    /\ f # t
    /\ LET next_order == MaxOrder(train_route.rows) + 1
           segment == SegmentRow(train_route.next_id, f, t, next_order)
       IN  IF UniqueOk(train_route.rows \cup {segment})
           THEN /\ train_route' = [rows |-> train_route.rows \cup {segment},
                                   next_id |-> train_route.next_id + 1]
                /\ Ended("add", segment.id, "", "added")
           ELSE /\ UNCHANGED train_route
                /\ Ended("add", 0, "", "IntegrityError")
    /\ OtherUnchanged

\* PUT /segments/{segment_id}/move
MoveSegment(segment_id, direction) ==
    /\ IF \A r \in train_route.rows : r.id # segment_id
       THEN UNCHANGED train_route /\ Ended("move", segment_id, direction, "ValueError")
       ELSE LET segment == CHOOSE r \in train_route.rows : r.id = segment_id
                current_order == segment.segment_order
                new_order == IF direction = "up" THEN current_order - 1
                             ELSE current_order + 1
            IN  IF direction = "up" /\ new_order < 1
                THEN UNCHANGED train_route /\ Ended("move", segment_id, direction, "False")
                ELSE IF direction # "up" /\ new_order > MaxOrder(train_route.rows)
                THEN UNCHANGED train_route /\ Ended("move", segment_id, direction, "False")
                ELSE IF \E r \in train_route.rows : r.segment_order = new_order
                THEN /\ train_route' =
                          [train_route EXCEPT !.rows =
                              Swapped(@, segment,
                                      CHOOSE r \in train_route.rows :
                                          r.segment_order = new_order,
                                      new_order)]
                     /\ Ended("move", segment_id, direction, "True")
                ELSE UNCHANGED train_route /\ Ended("move", segment_id, direction, "False")
    /\ OtherUnchanged

\* DELETE /segments/{segment_id}: the row goes and the rows after it move
\* up, in one transaction.
DeleteSegmentAndReorder(segment_id) ==
    /\ IF \A r \in train_route.rows : r.id # segment_id
       THEN UNCHANGED train_route /\ Ended("delete", segment_id, "", "False")
       ELSE LET segment == CHOOSE r \in train_route.rows : r.id = segment_id IN
            /\ train_route' = [train_route EXCEPT !.rows =
                                  ReorderAfter(@ \ {segment}, segment.segment_order)]
            /\ Ended("delete", segment_id, "", "True")
    /\ OtherUnchanged

\* The same request when the UPDATE of delete_segment reaches a row before
\* the row whose order it takes: the unique constraint on segment_order is
\* checked row by row, the statement fails and nothing is committed.
DeleteSegmentRefused(segment_id) ==
    /\ \E segment \in train_route.rows :
          /\ segment.id = segment_id
          /\ Cardinality({r \in train_route.rows :
                             r.segment_order > segment.segment_order}) >= 2
    /\ UNCHANGED train_route
    /\ Ended("delete", segment_id, "", "IntegrityError")
    /\ OtherUnchanged

SegmentsInit ==
    /\ PathIdle
    /\ NameIdle
    /\ ExportIdle
    /\ TasksIdle
    /\ MgmtIdle

SegmentsNext ==
    \/ \E f, t \in StationIds : AddRouteSegment(f, t)
    \/ \E id \in 1..MaxSegmentIds, direction \in {"up", "down"} : MoveSegment(id, direction)
    \/ \E id \in 1..MaxSegmentIds : DeleteSegmentAndReorder(id)
    \/ \E id \in 1..MaxSegmentIds : DeleteSegmentRefused(id)

SpecSegments == SegmentsInit /\ [][SegmentsNext]_vars

\* The segment_order values are pairwise distinct and are exactly 1..n.
OrdersAreContiguous(rows) ==
    /\ \A r, q \in rows : r # q => r.segment_order # q.segment_order
    /\ {r.segment_order : r \in rows} = 1..Cardinality(rows)

OrderOf(rows, id) == (CHOOSE r \in rows : r.id = id).segment_order

MovedAtTheEnd ==
    /\ last_op.op = "move"
    /\ \E r \in last_op.before :
          /\ r.id = last_op.id
          /\ \/ last_op.direction = "up" /\ r.segment_order = 1
             \/ last_op.direction = "down" /\ r.segment_order = Cardinality(last_op.before)

\* The rows after a successful move: the moved segment and one adjacent
\* segment have exchanged their orders, every other row is as before.
ExchangedTwoAdjacent ==
    \E a, b \in last_op.before :
        /\ a.id = last_op.id /\ a # b
        /\ b.segment_order = a.segment_order + (IF last_op.direction = "up" THEN 0 - 1 ELSE 1)
        /\ train_route.rows =
              (last_op.before \ {a, b})
                  \cup {[a EXCEPT !.segment_order = b.segment_order],
                        [b EXCEPT !.segment_order = a.segment_order]}

\* C29: after any sequence of add_route_segment, move_segment and
\* delete_segment requests served one at a time, the segment_order values of
\* the route are pairwise distinct and exactly 1..n; a move up at the top or
\* down at the bottom returns False and changes nothing; a successful move
\* exchanges the orders of two adjacent segments and changes no other row.
C29_OrdersStayContiguous ==
    /\ OrdersAreContiguous(train_route.rows)
    /\ MovedAtTheEnd => last_op.result = "False" /\ train_route.rows = last_op.before
    /\ (last_op.op = "move" /\ last_op.result = "True") => ExchangedTwoAdjacent

\* A successful move on a route of three segments from which a segment was
\* deleted before.
C29_Witness ==
    /\ last_op.op = "move" /\ last_op.result = "True"
    /\ Cardinality(train_route.rows) = 3
    /\ train_route.next_id = 5
    /\ \E r \in train_route.rows : r.id > r.segment_order + 1

----------------------------------------------------------------------------
(* The same three operations served step by step for two clients: a        *)
(* request first runs its queries, on the rows committed at that time, and *)
(* later runs its statements and commits.  train_route holds the committed *)
(* rows.                                                                   *)

\* Number of segments ever added by the interleaved requests at most.
MaxInterleavedIds == 3

Idle(c) == ops[c] = NoOp

Locals(op, id, f, t, direction, order, swap_id) ==
    [op |-> op, id |-> id, from_station_id |-> f, to_station_id |-> t,
     direction |-> direction, order |-> order, swap_id |-> swap_id]

RestUnchanged == UNCHANGED <<edgeVars, search, pathVars, nameVars, exportVars, taskVars>>

\* add_route_segment up to `next_order = max_order + 1`.
BeginAdd(c, f, t) ==
    /\ Idle(c)
    /\ f # t
    /\ ops' = [ops EXCEPT ![c] =
                  Locals("add", 0, f, t, "", MaxOrder(train_route.rows) + 1, 0)]
    /\ UNCHANGED <<train_route, last_op>>
    /\ RestUnchanged

\* db.add(segment); await db.commit()
CommitAdd(c) ==
    /\ ~Idle(c) /\ ops[c].op = "add"
    /\ train_route.next_id <= MaxInterleavedIds
    /\ LET segment == SegmentRow(train_route.next_id, ops[c].from_station_id,
                                 ops[c].to_station_id, ops[c].order)
       IN  IF UniqueOk(train_route.rows \cup {segment})
           THEN /\ train_route' = [rows |-> train_route.rows \cup {segment},
                                   next_id |-> train_route.next_id + 1]
                /\ Ended("add", segment.id, "", "added")
           ELSE /\ UNCHANGED train_route
                /\ Ended("add", 0, "", "IntegrityError")
    /\ ops' = [ops EXCEPT ![c] = NoOp]
    /\ RestUnchanged

\* move_segment up to the last query: the segment, the bounds and the
\* segment to swap with; a request that returns False or raises ends here.
BeginMove(c, segment_id, direction) ==
    /\ Idle(c)
    /\ IF \A r \in train_route.rows : r.id # segment_id
       THEN UNCHANGED ops /\ Ended("move", segment_id, direction, "ValueError")
       ELSE LET segment == CHOOSE r \in train_route.rows : r.id = segment_id
                current_order == segment.segment_order
                new_order == IF direction = "up" THEN current_order - 1
                             ELSE current_order + 1
            IN  IF \/ direction = "up" /\ new_order < 1
                   \/ direction # "up" /\ new_order > MaxOrder(train_route.rows)
                   \/ \A r \in train_route.rows : r.segment_order # new_order
                THEN UNCHANGED ops /\ Ended("move", segment_id, direction, "False")
                ELSE /\ ops' = [ops EXCEPT ![c] =
                                   Locals("move", segment_id, 0, 0, direction, current_order,
                                          (CHOOSE r \in train_route.rows :
                                              r.segment_order = new_order).id)]
                     /\ UNCHANGED last_op
    /\ UNCHANGED train_route
    /\ RestUnchanged

\* The three UPDATEs of move_segment, by id, and the commit.
CommitMove(c) ==
    /\ ~Idle(c) /\ ops[c].op = "move"
    /\ LET new_order == IF ops[c].direction = "up" THEN ops[c].order - 1
                        ELSE ops[c].order + 1
           rows == {IF r.id = ops[c].id THEN [r EXCEPT !.segment_order = new_order]
                    ELSE IF r.id = ops[c].swap_id
                    THEN [r EXCEPT !.segment_order = ops[c].order]
                    ELSE r : r \in train_route.rows}
       IN  IF UniqueOk(rows)
           THEN /\ train_route' = [train_route EXCEPT !.rows = rows]
                /\ Ended("move", ops[c].id, ops[c].direction, "True")
           ELSE /\ UNCHANGED train_route
                /\ Ended("move", ops[c].id, ops[c].direction, "IntegrityError")
    /\ ops' = [ops EXCEPT ![c] = NoOp]
    /\ RestUnchanged

\* delete_segment up to `deleted_order = segment.segment_order`.
BeginDelete(c, segment_id) ==
    /\ Idle(c)
    /\ IF \A r \in train_route.rows : r.id # segment_id
       THEN UNCHANGED ops /\ Ended("delete", segment_id, "", "False")
       ELSE /\ ops' = [ops EXCEPT ![c] =
                          Locals("delete", segment_id, 0, 0, "",
                                 OrderOf(train_route.rows, segment_id), 0)]
            /\ UNCHANGED last_op
    /\ UNCHANGED train_route
    /\ RestUnchanged

\* The DELETE by id, the UPDATE of the rows after deleted_order, and the
\* commit.
CommitDelete(c) ==
    /\ ~Idle(c) /\ ops[c].op = "delete"
    /\ LET rows == ReorderAfter({r \in train_route.rows : r.id # ops[c].id}, ops[c].order)
       IN  IF UniqueOk(rows)
           THEN /\ train_route' = [train_route EXCEPT !.rows = rows]
                /\ Ended("delete", ops[c].id, "", "True")
           ELSE /\ UNCHANGED train_route
                /\ Ended("delete", ops[c].id, "", "IntegrityError")
    /\ ops' = [ops EXCEPT ![c] = NoOp]
    /\ RestUnchanged

\* The same statements when the UPDATE reaches a row before the row whose
\* order it takes.
RefuseDelete(c) ==
    /\ ~Idle(c) /\ ops[c].op = "delete"
    /\ Cardinality({r \in train_route.rows :
                       r.id # ops[c].id /\ r.segment_order > ops[c].order}) >= 2
    /\ UNCHANGED train_route
    /\ Ended("delete", ops[c].id, "", "IntegrityError")
    /\ ops' = [ops EXCEPT ![c] = NoOp]
    /\ RestUnchanged

\* The interleaved requests add segments from a station to the following one.
Following(f) == (f % Cardinality(StationIds)) + 1

ClientStep(c) ==
    \/ \E f \in StationIds : BeginAdd(c, f, Following(f))
    \/ CommitAdd(c)
    \/ \E id \in 1..MaxInterleavedIds, direction \in {"up", "down"} : BeginMove(c, id, direction)
    \/ CommitMove(c)
    \/ \E id \in 1..MaxInterleavedIds : BeginDelete(c, id)
    \/ CommitDelete(c)
    \/ RefuseDelete(c)

InterleavedNext == \E c \in ClientIds : ClientStep(c)

SpecInterleaved == SegmentsInit /\ [][InterleavedNext]_vars

\* A request that failed left the committed rows as they were.
FailedCleanly ==
    (last_op # NoOp /\ last_op.result \in {"False", "ValueError", "IntegrityError"}) =>
        train_route.rows = last_op.before

AddsComputeDifferentOrders ==
    \A c, d \in ClientIds :
        (c # d /\ ~Idle(c) /\ ~Idle(d) /\ ops[c].op = "add" /\ ops[d].op = "add") =>
            ops[c].order # ops[d].order

\* C30: with the requests of two clients on one train route interleaved at
\* their queries and statements, every request completes or fails without a
\* change, the committed segment_order values are always pairwise distinct
\* and exactly 1..n, and two adds never hold the same next order.
C30_InterleavedOrdersStayContiguous ==
    /\ OrdersAreContiguous(train_route.rows)
    /\ FailedCleanly
    /\ AddsComputeDifferentOrders

====
